---- MODULE Spec2Model ----
(***************************************************************************)
(* Access on Demand: the IAM handler (pkg/handler/iam_handler.go).         *)
(*                                                                         *)
(* Several state machines share this module.                               *)
(*   SpecReconcile  the binding reconciler (addBindings, cleanupBindings)  *)
(*                  applied to a policy and a request drawn from bounded   *)
(*                  sets;                                                  *)
(*   SpecTitle      the same passes for a handler built with each of the   *)
(*                  option lists NewIAMHandler may be given;               *)
(*   Spec           the handler (Do, Cleanup, handlePolicy and its retry   *)
(*                  loop) running against the three policy stores;         *)
(*   SpecRace       two handlers reconciling the same resource;            *)
(*   SpecLive       the handler under fair scheduling of its steps;        *)
(*   SpecCommand    the commands "iam handle" and "iam cleanup"            *)
(*                  (pkg/cli) in front of the handler.                     *)
(***************************************************************************)
EXTENDS Integers, Sequences, FiniteSets, TLC

VARIABLES
    \* ---- shared by both machines
    now,            \* the wall clock (time.Now()), in ticks
    conditionTitle, \* IAMHandler.conditionTitle
    \* ---- the reconciler machine
    rp,             \* the policy object the pass mutates (cp in handlePolicy)
    rphase,         \* "input", then "pass1", then "pass2"
    rlast,          \* the last pass: what it was given and what it returned
    rfirst,         \* the pass before the last one
    \* ---- the handler machine
    store,          \* the policy each client's server holds
    ctxDone,        \* the caller's context is cancelled
    retryAttempt,   \* the attempt counter inside h.retry (retry.WithMaxRetries)
    pc,             \* where Do/Cleanup stands
    op,             \* "Do" or "Cleanup"
    req,            \* r.ResourcePolicies
    doExpiry,       \* Do: expiry, r.StartTime.Add(r.Duration)
    idx,            \* the entry of req the loop is at
    cp,             \* handlePolicy: the policy of the current attempt
    np,             \* handlePolicy: the policy SetIamPolicy returned
    updateErr,      \* handlePolicy: the error of updateFunc
    nps,            \* the responses collected so far
    retErr,         \* the errors joined so far
    \* ---- what the properties observe of the handler (not program state)
    gets,           \* GetIamPolicy calls issued for the current entry
    permSeen,       \* an error that will not pass came back for the current entry
    afterPerm,      \* a call was issued for the current entry after such an error
    got,            \* the GetIamPolicy response of the current attempt
    entryBase,      \* the store as it would be without the current entry's writes
    invBase,        \* the store as it would be without the invocation's writes
    lastWriter,     \* per client: the entry whose write is in the store
    log,            \* per finished entry: how it ended, the policy its last attempt
                    \* fetched and the error handlePolicy returned
    extWrites,      \* writes by others so far
    \* ---- a second handler reconciling the same resource
    peer,           \* where its handlePolicy stands, and its cp
    \* ---- the construction of the handler and the command in front of it
    opts,           \* the options NewIAMHandler was given
    cli             \* the command: its flags, where Run stands, its error

rvars == <<rp, rphase, rlast, rfirst>>
hvars == <<store, ctxDone, retryAttempt, pc, op, req, doExpiry, idx, cp, np,
           updateErr, nps, retErr, gets, permSeen, afterPerm, got, entryBase,
           invBase, lastWriter, log, extWrites>>
vars == <<now, conditionTitle, rp, rphase, rlast, rfirst,
          store, ctxDone, retryAttempt, pc, op, req, doExpiry, idx, cp, np,
          updateErr, nps, retErr, gets, permSeen, afterPerm, got, entryBase,
          invBase, lastWriter, log, extWrites, peer, opts, cli>>
cvars == <<opts, cli>>

\* ------------------------------------------------------------------------
\* Bounds of the model
\* ------------------------------------------------------------------------
MaxBindings == 2    \* bindings in a policy drawn as input
MaxEntries == 2     \* Binding entries in one ResourcePolicy of a request
MaxTick == 3        \* the clock and the requested expiries range over 0..MaxTick
MaxPolicies == 2    \* ResourcePolicy entries in one request
MaxExternalWrites == 1  \* writes to the store by others during an invocation

\* ------------------------------------------------------------------------
\* Values
\* ------------------------------------------------------------------------
Range(s) == {s[i] : i \in DOMAIN s}

\* defaultConditionTitle of IAM bindings added by AOD.
defaultConditionTitle == "abcxyz-aod-expiry"
\* A title a caller passes to WithCustomConditionTitle.
CustomTitle == "custom-expiry"

\* expirationExpression, and a text the regular expression does not match
\* (the tests' "request.time <= timestamp('%s')").
expirationExpression == "request.time < timestamp('%s')"
OtherExpression == "request.time <= timestamp('%s')"

\* Sub-second resolution of time.Time against the whole seconds of RFC3339.
TicksPerSecond == 2

Roles == {"roles/viewer", "roles/editor"}
\* The members, in the order sort.Strings puts them.
UserOrder == <<"user:a", "user:b">>
Users == Range(UserOrder)

Instants == 0..MaxTick

\* expiry.Format(time.RFC3339): the instant cut to whole seconds.
FormatRFC3339(t) == [layout |-> "RFC3339", sec |-> t \div TicksPerSecond]
\* The same instant written in another layout (time.RFC850 in the tests).
FormatRFC850(t) == [layout |-> "RFC850", sec |-> t \div TicksPerSecond]

\* time.Parse(time.RFC3339, s)
ParseRFC3339(s) ==
    IF s.layout = "RFC3339"
    THEN [ok |-> TRUE, t |-> s.sec * TicksPerSecond]
    ELSE [ok |-> FALSE, t |-> 0]

\* fmt.Sprintf(expirationExpression, t)
Sprintf(format, stamp) == [format |-> format, stamp |-> stamp]

\* expirationRegex.FindStringSubmatch(exp): the timestamp group when the
\* expression has the shape of expirationExpression.
FindStringSubmatch(exp) ==
    IF exp.format = expirationExpression THEN <<exp, exp.stamp>> ELSE <<>>

NilCondition ==
    [present |-> FALSE, title |-> "", expression |-> Sprintf("", FormatRFC3339(0))]
Condition(title, expression) ==
    [present |-> TRUE, title |-> title, expression |-> expression]

NewBinding(role, members, condition) ==
    [role |-> role, members |-> members, condition |-> condition]

\* sort.Strings over the members of a set.
SortStrings(S) == SelectSeq(UserOrder, LAMBDA u : u \in S)

\* expired with a decode error read as "expired".
expired_ErrorMeansExpired(exp, t) ==
    LET matches == FindStringSubmatch(exp) IN
    IF Len(matches) < 2 THEN [expired |-> TRUE, err |-> <<exp>>]
    ELSE LET parsed == ParseRFC3339(matches[2]) IN
         IF ~parsed.ok THEN [expired |-> TRUE, err |-> <<exp>>]
         ELSE [expired |-> parsed.t < t, err |-> <<>>]

\* expired(exp): (expired, err). err is the expression that failed to decode.
expired(exp, t) ==
    LET matches == FindStringSubmatch(exp) IN
    IF Len(matches) < 2 THEN [expired |-> FALSE, err |-> <<exp>>]
    ELSE LET parsed == ParseRFC3339(matches[2]) IN
         IF ~parsed.ok THEN [expired |-> FALSE, err |-> <<exp>>]
         ELSE [expired |-> parsed.t < t, err |-> <<>>]

\* toBindingsMap keeping, for a role, the members of its first entry only.
toBindingsMap_FirstEntry(bs) ==
    [r \in {bs[i].role : i \in DOMAIN bs} |->
        LET first == CHOOSE j \in DOMAIN bs :
                        bs[j].role = r /\ \A k \in DOMAIN bs : bs[k].role = r => j <= k
        IN Range(bs[first].members)]

\* toBindingsMap keeping, for a role, the members of its last entry only.
toBindingsMap_LastEntry(bs) ==
    [r \in {bs[i].role : i \in DOMAIN bs} |->
        LET last == CHOOSE j \in DOMAIN bs :
                        bs[j].role = r /\ \A k \in DOMAIN bs : bs[k].role = r => k <= j
        IN Range(bs[last].members)]

\* toBindingsMap(bs): role -> set of members, over the roles the request names.
toBindingsMap(bs) ==
    [r \in {bs[i].role : i \in DOMAIN bs} |->
        UNION {Range(bs[i].members) : i \in {j \in DOMAIN bs : bs[j].role = r}}]

\* IsForeign without the comparison of the title: every conditional binding
\* is taken for one of AOD's.
IsForeign_NilOnly(b, title) == ~b.condition.present

\* IsForeign comparing the title with defaultConditionTitle instead of the
\* handler's title.
IsForeign_DefaultTitle(b, title) ==
    ~b.condition.present \/ b.condition.title # defaultConditionTitle

\* "Keep non-AOD bindings": the test of cleanupBindings' first branch.
IsForeign(b, title) == ~b.condition.present \/ b.condition.title # title

\* cleanupBindings taking from a binding the first requested member it finds
\* and no more.
RemainingMembers_FirstOnly(b, bsMap) ==
    LET hits == {i \in DOMAIN b.members : b.members[i] \in bsMap[b.role]} IN
    IF hits = {} THEN b.members
    ELSE LET first == CHOOSE i \in hits : \A j \in hits : i <= j IN
         SubSeq(b.members, 1, first - 1) \o SubSeq(b.members, first + 1, Len(b.members))

\* cleanupBindings dropping a binding of a requested role as soon as it holds
\* a requested member.
RemainingMembers_DropIfAnyRequested(b, bsMap) ==
    IF \E i \in DOMAIN b.members : b.members[i] \in bsMap[b.role]
    THEN <<>>
    ELSE b.members

\* cleanupBindings keeping no member of a binding whose role is requested.
RemainingMembers_DropAll(b, bsMap) == <<>>

\* RemainingMembers without the removal of the requested members.
RemainingMembers_KeepAll(b, bsMap) == b.members

\* "Keep members from the binding if it is not in the request."
RemainingMembers(b, bsMap) ==
    SelectSeq(b.members, LAMBDA m : m \notin bsMap[b.role])

\* CleanupBinding going on to the next binding when the expression does not
\* decode: the binding is kept as it is.
CleanupBinding_SkipUndecodable(b, bsMap, t, title) ==
    IF IsForeign(b, title) THEN [keep |-> <<b>>, err |-> <<>>]
    ELSE LET e == expired(b.condition.expression, t) IN
         IF e.err # <<>> THEN [keep |-> <<b>>, err |-> e.err]
         ELSE IF e.expired THEN [keep |-> <<>>, err |-> e.err]
         ELSE IF b.role \notin DOMAIN bsMap THEN [keep |-> <<b>>, err |-> e.err]
         ELSE LET nm == RemainingMembers(b, bsMap) IN
              IF Len(nm) > 0
              THEN [keep |-> <<[b EXCEPT !.members = nm]>>, err |-> e.err]
              ELSE [keep |-> <<>>, err |-> e.err]

\* CleanupBinding with the role looked up before the expiry: an expired
\* binding of a role the request does not name is kept.
CleanupBinding_RoleFirst(b, bsMap, t, title) ==
    IF IsForeign(b, title) THEN [keep |-> <<b>>, err |-> <<>>]
    ELSE LET e == expired(b.condition.expression, t) IN
         IF b.role \notin DOMAIN bsMap THEN [keep |-> <<b>>, err |-> e.err]
         ELSE IF e.expired THEN [keep |-> <<>>, err |-> e.err]
         ELSE LET nm == RemainingMembers(b, bsMap) IN
              IF Len(nm) > 0
              THEN [keep |-> <<[b EXCEPT !.members = nm]>>, err |-> e.err]
              ELSE [keep |-> <<>>, err |-> e.err]

\* One iteration of cleanupBindings' loop: what the binding adds to keep and
\* to retErr.
CleanupBinding(b, bsMap, t, title) ==
    IF IsForeign(b, title) THEN [keep |-> <<b>>, err |-> <<>>]
    ELSE LET e == expired(b.condition.expression, t) IN
         IF e.expired THEN [keep |-> <<>>, err |-> e.err]
         ELSE IF b.role \notin DOMAIN bsMap THEN [keep |-> <<b>>, err |-> e.err]
         ELSE LET nm == RemainingMembers(b, bsMap) IN
              IF Len(nm) > 0
              THEN [keep |-> <<[b EXCEPT !.members = nm]>>, err |-> e.err]
              ELSE [keep |-> <<>>, err |-> e.err]

RECURSIVE CleanupLoop(_, _, _, _)
CleanupLoop(bindings, bsMap, t, title) ==
    IF bindings = <<>> THEN [keep |-> <<>>, err |-> <<>>]
    ELSE LET head == CleanupBinding(Head(bindings), bsMap, t, title)
             rest == CleanupLoop(Tail(bindings), bsMap, t, title)
         IN [keep |-> head.keep \o rest.keep, err |-> head.err \o rest.err]

\* cleanupBindings setting the version conditional bindings need.
cleanupBindings_SetsVersion(p, bs, t, title) ==
    LET loop == CleanupLoop(p.bindings, toBindingsMap(bs), t, title) IN
    [policy |-> [bindings |-> loop.keep, version |-> 3], err |-> loop.err]

\* cleanupBindings(ctx, p, bs, _): the policy as it leaves, and retErr (the
\* joined decode errors; <<>> is nil).
cleanupBindings(p, bs, t, title) ==
    LET loop == CleanupLoop(p.bindings, toBindingsMap(bs), t, title) IN
    [policy |-> [p EXCEPT !.bindings = loop.keep], err |-> loop.err]

\* The orders in which a range over the map bsMap can visit its roles.
RoleOrders(bsMap) ==
    {o \in [1..Cardinality(DOMAIN bsMap) -> DOMAIN bsMap] :
        \A i, j \in DOMAIN o : i # j => o[i] # o[j]}

\* The policy version conditional bindings need.
ConditionalVersion == 3

\* The binding addBindings builds for one role of the request.
ExpiryBinding(r, ms, expiry, title) ==
    NewBinding(r, SortStrings(ms),
               Condition(title, Sprintf(expirationExpression, FormatRFC3339(expiry))))

\* addBindings building one binding for each entry of the request instead of
\* one for each role.
addBindings_PerEntry(p, bs, expiry, t, title, order) ==
    LET cleaned == cleanupBindings(p, bs, t, title).policy
        added == [i \in DOMAIN bs |->
                    ExpiryBinding(bs[i].role, Range(bs[i].members), expiry, title)]
    IN [policy |-> [bindings |-> cleaned.bindings \o added,
                    version |-> ConditionalVersion],
        err |-> <<>>]

\* addBindings leaving the new bindings only: the policy is replaced, not
\* added to.
addBindings_ReplaceAll(p, bs, expiry, t, title, order) ==
    LET bsMap == toBindingsMap(bs)
        added == [i \in DOMAIN order |->
                    ExpiryBinding(order[i], bsMap[order[i]], expiry, title)]
    IN [policy |-> [bindings |-> added, version |-> ConditionalVersion],
        err |-> <<>>]

\* addBindings returning the error of the cleanup instead of logging it.
addBindings_ReturnsCleanupErr(p, bs, expiry, t, title, order) ==
    LET cleaned == cleanupBindings(p, bs, t, title)
        bsMap == toBindingsMap(bs)
        added == [i \in DOMAIN order |->
                    ExpiryBinding(order[i], bsMap[order[i]], expiry, title)]
    IN [policy |-> [bindings |-> cleaned.policy.bindings \o added,
                    version |-> ConditionalVersion],
        err |-> cleaned.err]

\* addBindings(ctx, p, bs, expiry), with the order in which the range over
\* bsMap visits the roles. The error of the cleanup is logged, nil is returned.
addBindings(p, bs, expiry, t, title, order) ==
    LET cleaned == cleanupBindings(p, bs, t, title).policy
        bsMap == toBindingsMap(bs)
        added == [i \in DOMAIN order |->
                    ExpiryBinding(order[i], bsMap[order[i]], expiry, title)]
    IN [policy |-> [bindings |-> cleaned.bindings \o added,
                    version |-> ConditionalVersion],
        err |-> <<>>]

\* ------------------------------------------------------------------------
\* The handler's values
\* ------------------------------------------------------------------------
\* The clients of an IAMHandler, by the first segment of the resource.
Levels == {"organizations", "folders", "projects"}

\* No policy (a nil *iampb.Policy) and the zero policy (&iampb.Policy{}).
ZeroPolicy == [bindings |-> <<>>, version |-> 0]
None == [some |-> FALSE, policy |-> ZeroPolicy]
Some(p) == [some |-> TRUE, policy |-> p]

NoCall == [attempt |-> 0, policy |-> ZeroPolicy]

\* WithCustomConditionTitle(title) applied to the handler under construction.
WithCustomConditionTitle(h, title) == [h EXCEPT !.conditionTitle = title]

RECURSIVE ApplyOptions(_, _)
ApplyOptions(h, os) ==
    IF os = <<>> THEN h
    ELSE ApplyOptions(WithCustomConditionTitle(h, Head(os)), Tail(os))

\* NewIAMHandler keeping the title the options left, the empty one included.
NewIAMHandler_NoDefault(os) == ApplyOptions([conditionTitle |-> ""], os)

\* NewIAMHandler(ctx, clients, opts...), as far as the title goes: the options
\* are applied in order to the zero handler, and a title left empty becomes
\* defaultConditionTitle.
NewIAMHandler(os) ==
    LET h == ApplyOptions([conditionTitle |-> ""], os) IN
    IF h.conditionTitle = ""
    THEN [h EXCEPT !.conditionTitle = defaultConditionTitle]
    ELSE h

\* The command before Run is called.
CommandIdle ==
    [cmd |-> "none", flagPath |-> "", flagDuration |-> 0, flagStartTime |-> 0,
     flagCustomConditionTitle |-> "", phase |-> "idle", err |-> ""]

\* The second handler before its handlePolicy is called.
PeerIdle == [pc |-> "idle", cp |-> ZeroPolicy]

\* The handler before Do or Cleanup is called, with the policies its servers
\* hold.
HandlerIdleWith(s) ==
    /\ store = s
    /\ ctxDone = FALSE
    /\ retryAttempt = 0
    /\ pc = "idle"
    /\ op = "none"
    /\ req = <<>>
    /\ doExpiry = 0
    /\ idx = 0
    /\ cp = ZeroPolicy
    /\ np = None
    /\ updateErr = <<>>
    /\ nps = <<>>
    /\ retErr = <<>>
    /\ gets = 0
    /\ permSeen = FALSE
    /\ afterPerm = FALSE
    /\ got = NoCall
    /\ entryBase = s
    /\ invBase = s
    /\ lastWriter = [l \in Levels |-> 0]
    /\ log = <<>>
    /\ extWrites = 0
    /\ peer = PeerIdle

HandlerIdle == HandlerIdleWith([l \in Levels |-> ZeroPolicy])

\* ------------------------------------------------------------------------
\* The reconciler machine: a policy and the clock are drawn as inputs, then
\* up to two passes are applied to the policy, each with a request drawn
\* from RequestInputs.
\* ------------------------------------------------------------------------
Seconds == {t \div TicksPerSecond : t \in Instants}

ExpiryExpression(sec) ==
    Sprintf(expirationExpression, [layout |-> "RFC3339", sec |-> sec])

\* Conditions of the bindings of an input policy: none, another title's, and
\* the handler's title over a decodable expression of each second, over an
\* expression of another shape and over a timestamp in another layout.
ConditionInputs ==
    {NilCondition, Condition(CustomTitle, ExpiryExpression(0))}
    \cup {Condition(defaultConditionTitle, ExpiryExpression(s)) : s \in Seconds}
    \cup {Condition(defaultConditionTitle, Sprintf(OtherExpression, FormatRFC3339(0))),
          Condition(defaultConditionTitle, Sprintf(expirationExpression, FormatRFC850(0)))}

BindingInputs ==
    {NewBinding("roles/viewer", <<"user:a", "user:b">>, c) : c \in ConditionInputs}

SeqsUpTo(S, n) == UNION {[1..k -> S] : k \in 0..n}

PolicyInputs ==
    {[bindings |-> bs, version |-> v] :
        bs \in SeqsUpTo(BindingInputs, MaxBindings), v \in {1}}

\* v1alpha1.Binding entries of a request: members may be empty, and a role may
\* be named by several entries.
EntryInputs ==
    {[role |-> "roles/viewer", members |-> <<"user:a">>],
     [role |-> "roles/viewer", members |-> <<"user:b">>],
     [role |-> "roles/viewer", members |-> <<>>],
     [role |-> "roles/editor", members |-> <<"user:a">>]}

\* addBindings and cleanupBindings read the request as the roles it names and
\* the members it names for each role, whatever the entries that name them:
\* one request is drawn for each such reading of the requests of up to
\* MaxEntries entries.
RequestKey(bs) ==
    <<{bs[i].role : i \in DOMAIN bs},
      UNION {{<<bs[i].role, m>> : m \in Range(bs[i].members)} : i \in DOMAIN bs}>>
RequestInputs ==
    LET all == SeqsUpTo(EntryInputs, MaxEntries) IN
    {CHOOSE bs \in all : RequestKey(bs) = k : k \in {RequestKey(bs) : bs \in all}}

\* The instants at which the passes run: an instant within second 0, and the
\* start of second 1, at which a binding expiring at second 1 is not yet
\* expired.
NowInputs == {TicksPerSecond - 1, TicksPerSecond}

NoPass ==
    [op |-> "none", fetched |-> [bindings |-> <<>>, version |-> 0], bs |-> <<>>,
     bsMap |-> toBindingsMap(<<>>), expiry |-> 0, err |-> <<>>]

InitReconcile ==
    /\ HandlerIdle
    /\ now \in NowInputs
    /\ conditionTitle = defaultConditionTitle
    /\ opts = <<>>
    /\ cli = CommandIdle
    /\ rp \in PolicyInputs
    /\ rphase = "input"
    /\ rlast = NoPass
    /\ rfirst = NoPass

NextPhase(ph) == IF ph = "input" THEN "pass1" ELSE "pass2"

\* One Add pass: addBindings on the policy.
AddPass ==
    /\ rphase \in {"input", "pass1"}
    /\ \E bs \in RequestInputs, expiry \in Instants :
        \E order \in RoleOrders(toBindingsMap(bs)) :
            LET res == addBindings(rp, bs, expiry, now, conditionTitle, order) IN
            /\ rphase = "pass1" =>
                    /\ rlast.op = "Add"
                    /\ rlast.bsMap = toBindingsMap(bs)
                    /\ rlast.expiry < expiry
            /\ rp' = res.policy
            /\ rlast' = [op |-> "Add", fetched |-> rp, bs |-> bs,
                         bsMap |-> toBindingsMap(bs),
                         expiry |-> expiry, err |-> res.err]
    /\ rfirst' = rlast
    /\ rphase' = NextPhase(rphase)
    /\ UNCHANGED <<now, conditionTitle>>
    /\ UNCHANGED hvars /\ UNCHANGED peer /\ UNCHANGED cvars

\* One Remove pass: cleanupBindings on the policy.
RemovePass ==
    /\ rphase \in {"input", "pass1"}
    /\ \E bs \in RequestInputs :
            LET res == cleanupBindings(rp, bs, now, conditionTitle) IN
            /\ rphase = "pass1" =>
                    rlast.op = "Remove" /\ rlast.bsMap = toBindingsMap(bs)
            /\ rp' = res.policy
            /\ rlast' = [op |-> "Remove", fetched |-> rp, bs |-> bs,
                         bsMap |-> toBindingsMap(bs),
                         expiry |-> 0, err |-> res.err]
    /\ rfirst' = rlast
    /\ rphase' = NextPhase(rphase)
    /\ UNCHANGED <<now, conditionTitle>>
    /\ UNCHANGED hvars /\ UNCHANGED peer /\ UNCHANGED cvars

NextReconcile == AddPass \/ RemovePass

SpecReconcile == InitReconcile /\ [][NextReconcile]_vars

\* The option lists NewIAMHandler is given: none, a custom title, and an empty
\* title.
OptionInputs == {<<>>, <<CustomTitle>>, <<"">>}

\* The passes of a handler built with each of the option lists, at the start of
\* second 1.
InitTitle ==
    /\ HandlerIdle
    /\ now = TicksPerSecond
    /\ opts \in OptionInputs
    /\ conditionTitle = NewIAMHandler(opts).conditionTitle
    /\ cli = CommandIdle
    /\ rp \in PolicyInputs
    /\ rphase = "input"
    /\ rlast = NoPass
    /\ rfirst = NoPass

SpecTitle == InitTitle /\ [][NextReconcile]_vars

\* ------------------------------------------------------------------------
\* The handler machine: Do and Cleanup over the entries of a request, each
\* entry through handlePolicy and its retry loop, against the servers of the
\* three clients
\* ------------------------------------------------------------------------
\* The retries NewIAMHandler allows by default: retry.WithMaxRetries(5, ...).
DefaultMaxRetries == 5

\* A backoff that never stops.
RetryStops_Never(attempt) == FALSE

\* retry.WithMaxRetries: Next() stops once the counter has reached the
\* maximum; otherwise it counts one more and hands out the next delay. The
\* counter lives in the Backoff, that is in h.retry.
RetryStops(attempt) == attempt >= DefaultMaxRetries

\* What the servers answer to a call: success, an error that may pass
\* (Unavailable), an error that will not (PermissionDenied), and Canceled to a
\* call under a cancelled context.
Outcomes == {"ok", "unavailable", "denied"}
CallOutcomes == IF ctxDone THEN {"canceled"} ELSE Outcomes
Permanent(outcome) == outcome = "denied"

\* The error f returns to retry.Do for a failed call: handlePolicy wraps the
\* error of GetIamPolicy and the error of SetIamPolicy in retry.RetryableError,
\* whatever the error is.
Retryable(outcome) == TRUE

\* Resources of the entries: an organization, a project and a resource of no
\* client. No entry names a folder: the folders server holds a policy no
\* request is about.
ResourceInputs ==
    {<<"organizations", "foo">>, <<"projects", "baz">>, <<"billingAccounts", "qux">>}

\* The switch of handlePolicy with the projects client as its default.
ClientOf_DefaultProjects(resource) ==
    CASE Head(resource) = "organizations" -> "organizations"
      [] Head(resource) = "folders" -> "folders"
      [] OTHER -> "projects"

\* The switch of handlePolicy on strings.Split(p.Resource, "/")[0].
ClientOf(resource) ==
    CASE Head(resource) = "organizations" -> "organizations"
      [] Head(resource) = "folders" -> "folders"
      [] Head(resource) = "projects" -> "projects"
      [] OTHER -> "none"

\* cp, err := iamC.GetIamPolicy(...): the policy of an attempt is the response
\* of the attempt's own call.
FetchedPolicy_Cached(previous, response) ==
    IF previous # ZeroPolicy THEN previous ELSE response
FetchedPolicy(previous, response) == response

\* A server that keeps, under SetIamPolicy, the stored bindings the new
\* policy does not hold.
StoreAfterSet_KeepOthers(s, level, policy, outcome) ==
    IF outcome = "ok"
    THEN [s EXCEPT ![level] =
            [policy EXCEPT !.bindings =
                @ \o SelectSeq(s[level].bindings,
                               LAMBDA b : b \notin Range(policy.bindings))]]
    ELSE s

\* The server under SetIamPolicy: the policy is stored when the call succeeds.
StoreAfterSet_Always(s, level, policy, outcome) == [s EXCEPT ![level] = policy]
StoreAfterSet(s, level, policy, outcome) ==
    IF outcome = "ok" THEN [s EXCEPT ![level] = policy] ELSE s

\* The policies the servers hold at first: a binding of the handler's title
\* whose expression does not decode, no binding, and an expired binding of the
\* handler's title.
SeedStore ==
    [l \in Levels |->
        CASE l = "organizations" ->
                [bindings |-> <<NewBinding("roles/viewer", <<"user:a", "user:b">>,
                                  Condition(defaultConditionTitle,
                                            Sprintf(OtherExpression, FormatRFC3339(0))))>>,
                 version |-> ConditionalVersion]
          [] l = "folders" -> ZeroPolicy
          [] OTHER ->
                [bindings |-> <<NewBinding("roles/viewer", <<"user:b">>,
                                  Condition(defaultConditionTitle, ExpiryExpression(0)))>>,
                 version |-> ConditionalVersion]]

\* The policy another writer leaves: one more binding without a condition.
ExternalPolicy(p) ==
    [p EXCEPT !.bindings =
        Append(@, NewBinding("roles/editor", <<"user:b">>, NilCondition))]

\* Requests: up to MaxPolicies entries, each asking roles/viewer for user:a.
PolicyEntryInputs ==
    {[resource |-> r, bindings |-> <<[role |-> "roles/viewer", members |-> <<"user:a">>]>>] :
        r \in ResourceInputs}
HandlerRequests == SeqsUpTo(PolicyEntryInputs, MaxPolicies)

Init ==
    /\ HandlerIdleWith(SeedStore)
    /\ now = TicksPerSecond
    /\ conditionTitle = defaultConditionTitle
    /\ opts = <<>>
    /\ cli = CommandIdle
    /\ rp = ZeroPolicy
    /\ rphase = "off"
    /\ rlast = NoPass
    /\ rfirst = NoPass

\* Do(ctx, r) up to its loop.
StartDo ==
    /\ pc = "idle"
    /\ \E r \in HandlerRequests, e \in {MaxTick} :
        /\ req' = r
        /\ doExpiry' = e
    /\ op' = "Do"
    /\ idx' = 1
    /\ pc' = "entry"
    /\ nps' = <<>>
    /\ retErr' = <<>>
    /\ invBase' = store
    /\ UNCHANGED <<store, ctxDone, retryAttempt, cp, np, updateErr, gets, permSeen,
                   afterPerm, got, entryBase, lastWriter, log, extWrites>>
    /\ UNCHANGED <<now, conditionTitle, peer>> /\ UNCHANGED rvars /\ UNCHANGED cvars

\* Cleanup(ctx, r) up to its loop; the expiry it passes is a dummy.
StartCleanup ==
    /\ pc = "idle"
    /\ \E r \in HandlerRequests : req' = r
    /\ doExpiry' = now
    /\ op' = "Cleanup"
    /\ idx' = 1
    /\ pc' = "entry"
    /\ nps' = <<>>
    /\ retErr' = <<>>
    /\ invBase' = store
    /\ UNCHANGED <<store, ctxDone, retryAttempt, cp, np, updateErr, gets, permSeen,
                   afterPerm, got, entryBase, lastWriter, log, extWrites>>
    /\ UNCHANGED <<now, conditionTitle, peer>> /\ UNCHANGED rvars /\ UNCHANGED cvars

\* The loop of Do and Cleanup keeping the first error only.
FinishEntry_FirstErrorOnly(resp, err, fetched) ==
    /\ nps' = IF resp.some
              THEN Append(nps, [resource |-> req[idx].resource, policy |-> resp.policy])
              ELSE nps
    /\ retErr' = IF err # <<>> /\ retErr = <<>>
                 THEN Append(retErr, [resource |-> req[idx].resource, err |-> err])
                 ELSE retErr
    /\ log' = Append(log, [status |-> IF resp.some THEN "ok"
                                      ELSE IF ClientOf(req[idx].resource) = "none"
                                           THEN "invalid" ELSE "failed",
                           fetched |-> fetched,
                           got |-> IF resp.some THEN got.policy ELSE ZeroPolicy,
                           err |-> err])
    /\ idx' = idx + 1
    /\ pc' = "entry"
    /\ cp' = ZeroPolicy
    /\ np' = None
    /\ updateErr' = <<>>
    /\ gets' = 0
    /\ permSeen' = FALSE
    /\ afterPerm' = FALSE
    /\ got' = NoCall

\* The loop of Do and Cleanup returning at the first entry that fails.
FinishEntry_Abort(resp, err, fetched) ==
    /\ nps' = IF resp.some
              THEN Append(nps, [resource |-> req[idx].resource, policy |-> resp.policy])
              ELSE nps
    /\ retErr' = IF err # <<>>
                 THEN Append(retErr, [resource |-> req[idx].resource, err |-> err])
                 ELSE retErr
    /\ log' = Append(log, [status |-> IF resp.some THEN "ok"
                                      ELSE IF ClientOf(req[idx].resource) = "none"
                                           THEN "invalid" ELSE "failed",
                           fetched |-> fetched,
                           got |-> IF resp.some THEN got.policy ELSE ZeroPolicy,
                           err |-> err])
    /\ idx' = IF err # <<>> THEN Len(req) + 1 ELSE idx + 1
    /\ pc' = "entry"
    /\ cp' = ZeroPolicy
    /\ np' = None
    /\ updateErr' = <<>>
    /\ gets' = 0
    /\ permSeen' = FALSE
    /\ afterPerm' = FALSE
    /\ got' = NoCall

\* The body of the loop of Do and Cleanup once handlePolicy has returned
\* (resp, err) for the entry at idx; fetched tells whether GetIamPolicy was
\* called for it.
FinishEntry(resp, err, fetched) ==
    /\ nps' = IF resp.some
              THEN Append(nps, [resource |-> req[idx].resource, policy |-> resp.policy])
              ELSE nps
    /\ retErr' = IF err # <<>>
                 THEN Append(retErr, [resource |-> req[idx].resource, err |-> err])
                 ELSE retErr
    /\ log' = Append(log, [status |-> IF resp.some THEN "ok"
                                      ELSE IF ClientOf(req[idx].resource) = "none"
                                           THEN "invalid" ELSE "failed",
                           fetched |-> fetched,
                           got |-> IF resp.some THEN got.policy ELSE ZeroPolicy,
                           err |-> err])
    /\ idx' = idx + 1
    /\ pc' = "entry"
    /\ cp' = ZeroPolicy
    /\ np' = None
    /\ updateErr' = <<>>
    /\ gets' = 0
    /\ permSeen' = FALSE
    /\ afterPerm' = FALSE
    /\ got' = NoCall

\* handlePolicy up to retry.Do: the client of the entry, or the error of a
\* resource of no client.
Dispatch ==
    /\ pc = "entry"
    /\ idx <= Len(req)
    /\ entryBase' = store
    /\ IF ClientOf(req[idx].resource) = "none"
       THEN FinishEntry(None, <<[msg |-> "resource isn't one of [organizations, folders, projects]",
                                 cause |-> "none"]>>, FALSE)
       ELSE /\ pc' = "try"
            /\ UNCHANGED <<nps, retErr, log, idx, cp, np, updateErr, gets, permSeen,
                           afterPerm, got>>
    /\ UNCHANGED <<store, ctxDone, retryAttempt, op, req, doExpiry, invBase,
                   lastWriter, extWrites>>
    /\ UNCHANGED <<now, conditionTitle, peer>> /\ UNCHANGED rvars /\ UNCHANGED cvars

\* The return of Do and Cleanup.
Return ==
    /\ pc = "entry"
    /\ idx > Len(req)
    /\ pc' = "done"
    /\ UNCHANGED <<store, ctxDone, retryAttempt, op, req, doExpiry, idx, cp, np,
                   updateErr, nps, retErr, gets, permSeen, afterPerm, got,
                   entryBase, invBase, lastWriter, log, extWrites>>
    /\ UNCHANGED <<now, conditionTitle, peer>> /\ UNCHANGED rvars /\ UNCHANGED cvars

\* retry.Do after f has failed with the error of a call: an error that is not
\* retryable is returned at once; otherwise Next() is asked, and the loop goes
\* on unless it stops. handlePolicy joins updateErr to the error returned.
\* msg names the call that failed, tries counts the calls of f for the entry.
AfterFailure(msg, outcome, tries) ==
    IF ~Retryable(outcome) \/ RetryStops(retryAttempt)
    THEN /\ FinishEntry(None, updateErr \o <<[msg |-> msg, cause |-> outcome]>>, TRUE)
         /\ retryAttempt' = retryAttempt
    ELSE /\ retryAttempt' = retryAttempt + 1
         /\ pc' = "try"
         /\ gets' = tries
         /\ permSeen' = (permSeen \/ Permanent(outcome))
         /\ afterPerm' = (afterPerm \/ permSeen)
         /\ got' = NoCall
         /\ np' = None
         /\ UNCHANGED <<nps, retErr, log, idx, updateErr, cp>>

\* retry.Do finding the context done at the top of its loop: ctx.Err() is
\* returned, f is not called.
RetryCanceled ==
    /\ pc = "try"
    /\ ctxDone
    /\ FinishEntry(None, updateErr \o <<[msg |-> "failed to handle IAM request",
                                         cause |-> "context canceled"]>>, gets > 0)
    /\ UNCHANGED <<store, ctxDone, retryAttempt, op, req, doExpiry, entryBase,
                   invBase, lastWriter, extWrites>>
    /\ UNCHANGED <<now, conditionTitle, peer>> /\ UNCHANGED rvars /\ UNCHANGED cvars

\* retry.Do calling f without looking at the context first.
GetIamPolicy_IgnoreCtx ==
    /\ pc = "try"
    /\ \E outcome \in CallOutcomes :
        IF outcome = "ok"
        THEN /\ cp' = FetchedPolicy(cp, store[ClientOf(req[idx].resource)])
             /\ got' = [attempt |-> gets + 1,
                        policy |-> store[ClientOf(req[idx].resource)]]
             /\ gets' = gets + 1
             /\ afterPerm' = (afterPerm \/ permSeen)
             /\ pc' = "update"
             /\ UNCHANGED <<retryAttempt, nps, retErr, log, idx, np, updateErr,
                            permSeen>>
        ELSE AfterFailure("failed to get IAM policy", outcome, gets + 1)
    /\ UNCHANGED <<store, ctxDone, op, req, doExpiry, entryBase, invBase,
                   lastWriter, extWrites>>
    /\ UNCHANGED <<now, conditionTitle, peer>> /\ UNCHANGED rvars /\ UNCHANGED cvars

\* One attempt up to the answer of GetIamPolicy.
GetIamPolicy ==
    /\ pc = "try"
    /\ ~ctxDone
    /\ \E outcome \in CallOutcomes :
        IF outcome = "ok"
        THEN /\ cp' = FetchedPolicy(cp, store[ClientOf(req[idx].resource)])
             /\ got' = [attempt |-> gets + 1,
                        policy |-> store[ClientOf(req[idx].resource)]]
             /\ gets' = gets + 1
             /\ afterPerm' = (afterPerm \/ permSeen)
             /\ pc' = "update"
             /\ UNCHANGED <<retryAttempt, nps, retErr, log, idx, np, updateErr,
                            permSeen>>
        ELSE AfterFailure("failed to get IAM policy", outcome, gets + 1)
    /\ UNCHANGED <<store, ctxDone, op, req, doExpiry, entryBase, invBase,
                   lastWriter, extWrites>>
    /\ UNCHANGED <<now, conditionTitle, peer>> /\ UNCHANGED rvars /\ UNCHANGED cvars

\* The attempt failing, and being retried, when updateFunc returns an error.
UpdatePolicy_RetryOnError ==
    /\ pc = "update"
    /\ \E order \in RoleOrders(toBindingsMap(req[idx].bindings)) :
        LET res == IF op = "Do"
                   THEN addBindings(cp, req[idx].bindings, doExpiry, now,
                                    conditionTitle, order)
                   ELSE cleanupBindings(cp, req[idx].bindings, now, conditionTitle)
        IN IF res.err # <<>>
           THEN AfterFailure("errors when updating IAM policy", "decode", gets)
           ELSE /\ cp' = res.policy
                /\ pc' = "set"
                /\ UNCHANGED <<retryAttempt, idx, np, nps, retErr, gets, permSeen,
                               afterPerm, got, log, updateErr>>
    /\ UNCHANGED <<store, ctxDone, op, req, doExpiry, entryBase, invBase,
                   lastWriter, extWrites>>
    /\ UNCHANGED <<now, conditionTitle, peer>> /\ UNCHANGED rvars /\ UNCHANGED cvars

\* updateFunc on the fetched policy: addBindings for Do, cleanupBindings for
\* Cleanup. Its error is kept in updateErr and the attempt goes on.
UpdatePolicy ==
    /\ pc = "update"
    /\ \E order \in RoleOrders(toBindingsMap(req[idx].bindings)) :
        LET res == IF op = "Do"
                   THEN addBindings(cp, req[idx].bindings, doExpiry, now,
                                    conditionTitle, order)
                   ELSE cleanupBindings(cp, req[idx].bindings, now, conditionTitle)
        IN /\ cp' = res.policy
           /\ updateErr' = IF res.err # <<>> THEN res.err ELSE updateErr
    /\ pc' = "set"
    /\ UNCHANGED <<store, ctxDone, retryAttempt, op, req, doExpiry, idx, np, nps,
                   retErr, gets, permSeen, afterPerm, got, entryBase,
                   invBase, lastWriter, log, extWrites>>
    /\ UNCHANGED <<now, conditionTitle, peer>> /\ UNCHANGED rvars /\ UNCHANGED cvars

\* The rest of the attempt: SetIamPolicy with cp and its answer.
SetIamPolicy ==
    /\ pc = "set"
    /\ \E outcome \in CallOutcomes :
        /\ store' = StoreAfterSet(store, ClientOf(req[idx].resource), cp, outcome)
        /\ IF outcome = "ok"
           THEN /\ lastWriter' = [lastWriter EXCEPT ![ClientOf(req[idx].resource)] = idx]
                /\ FinishEntry(Some(cp), updateErr, TRUE)
                /\ retryAttempt' = retryAttempt
           ELSE /\ lastWriter' = lastWriter
                /\ AfterFailure("failed to set IAM policy", outcome, gets)
    /\ UNCHANGED <<ctxDone, op, req, doExpiry, entryBase, invBase, extWrites>>
    /\ UNCHANGED <<now, conditionTitle, peer>> /\ UNCHANGED rvars /\ UNCHANGED cvars

\* The caller cancels the context while Do or Cleanup runs: before an attempt
\* or between its two calls.
Cancel ==
    /\ pc \in {"try", "set"}
    /\ ~ctxDone
    /\ ctxDone' = TRUE
    /\ UNCHANGED <<store, retryAttempt, pc, op, req, doExpiry, idx, cp, np,
                   updateErr, nps, retErr, gets, permSeen, afterPerm, got,
                   entryBase, invBase, lastWriter, log, extWrites>>
    /\ UNCHANGED <<now, conditionTitle, peer>> /\ UNCHANGED rvars /\ UNCHANGED cvars

\* Another writer sets the policy of the resource the handler is at, before an
\* attempt or between its two calls.
ExternalWrite ==
    /\ pc \in {"try", "set"}
    /\ extWrites < MaxExternalWrites
    /\ extWrites' = extWrites + 1
    /\ LET level == ClientOf(req[idx].resource)
           p == ExternalPolicy(store[level])
       IN /\ store' = [store EXCEPT ![level] = p]
          /\ entryBase' = [entryBase EXCEPT ![level] = p]
          /\ invBase' = [invBase EXCEPT ![level] = p]
          /\ lastWriter' = [lastWriter EXCEPT ![level] = 0]
    /\ UNCHANGED <<ctxDone, retryAttempt, pc, op, req, doExpiry, idx, cp, np,
                   updateErr, nps, retErr, gets, permSeen, afterPerm, got, log>>
    /\ UNCHANGED <<now, conditionTitle, peer>> /\ UNCHANGED rvars /\ UNCHANGED cvars

Next ==
    \/ StartDo
    \/ StartCleanup
    \/ Dispatch
    \/ Return
    \/ RetryCanceled
    \/ GetIamPolicy
    \/ UpdatePolicy
    \/ SetIamPolicy
    \/ Cancel
    \/ ExternalWrite

Spec == Init /\ [][Next]_vars

\* ------------------------------------------------------------------------
\* Two handlers on one resource: the handler machine for a request of one
\* entry, and a second handler running handlePolicy for the same resource at
\* the same time
\* ------------------------------------------------------------------------
\* The resource both handlers are asked about.
RaceResource == <<"projects", "baz">>

\* The request of the first handler, and the bindings asked of the second.
RaceRequests ==
    {<<[resource |-> RaceResource,
        bindings |-> <<[role |-> "roles/viewer", members |-> <<"user:a">>]>>]>>}
PeerBindings == <<[role |-> "roles/editor", members |-> <<"user:b">>]>>

\* Do(ctx, r) of the first handler up to its loop.
StartRace ==
    /\ pc = "idle"
    /\ req' \in RaceRequests
    /\ doExpiry' = MaxTick
    /\ op' = "Do"
    /\ idx' = 1
    /\ pc' = "entry"
    /\ nps' = <<>>
    /\ retErr' = <<>>
    /\ invBase' = store
    /\ UNCHANGED <<store, ctxDone, retryAttempt, cp, np, updateErr, gets, permSeen,
                   afterPerm, got, entryBase, lastWriter, log, extWrites>>
    /\ UNCHANGED <<now, conditionTitle, peer>> /\ UNCHANGED rvars /\ UNCHANGED cvars

\* The second handler: GetIamPolicy answered.
PeerGetIamPolicy ==
    /\ pc # "idle"
    /\ peer.pc = "idle"
    /\ peer' = [pc |-> "update", cp |-> FetchedPolicy(peer.cp, store[ClientOf(RaceResource)])]
    /\ UNCHANGED hvars
    /\ UNCHANGED <<now, conditionTitle>> /\ UNCHANGED rvars /\ UNCHANGED cvars

\* The second handler: addBindings on its cp.
PeerUpdatePolicy ==
    /\ peer.pc = "update"
    /\ \E order \in RoleOrders(toBindingsMap(PeerBindings)) :
        peer' = [pc |-> "set",
                 cp |-> addBindings(peer.cp, PeerBindings, MaxTick, now,
                                    conditionTitle, order).policy]
    /\ UNCHANGED hvars
    /\ UNCHANGED <<now, conditionTitle>> /\ UNCHANGED rvars /\ UNCHANGED cvars

\* The second handler: SetIamPolicy with its cp, answered with success. To the
\* first handler this is a write by another.
PeerSetIamPolicy ==
    /\ peer.pc = "set"
    /\ peer' = [peer EXCEPT !.pc = "done"]
    /\ store' = StoreAfterSet(store, ClientOf(RaceResource), peer.cp, "ok")
    /\ entryBase' = StoreAfterSet(entryBase, ClientOf(RaceResource), peer.cp, "ok")
    /\ invBase' = StoreAfterSet(invBase, ClientOf(RaceResource), peer.cp, "ok")
    /\ lastWriter' = [lastWriter EXCEPT ![ClientOf(RaceResource)] = 0]
    /\ UNCHANGED <<ctxDone, retryAttempt, pc, op, req, doExpiry, idx, cp, np,
                   updateErr, nps, retErr, gets, permSeen, afterPerm, got, log,
                   extWrites>>
    /\ UNCHANGED <<now, conditionTitle>> /\ UNCHANGED rvars /\ UNCHANGED cvars

NextRace ==
    \/ StartRace
    \/ Dispatch
    \/ Return
    \/ GetIamPolicy
    \/ UpdatePolicy
    \/ SetIamPolicy
    \/ PeerGetIamPolicy
    \/ PeerUpdatePolicy
    \/ PeerSetIamPolicy

SpecRace == Init /\ [][NextRace]_vars

\* ------------------------------------------------------------------------
\* Properties of the reconciler (checked under SpecReconcile)
\* ------------------------------------------------------------------------
Count(b, bindings) == Cardinality({i \in DOMAIN bindings : bindings[i] = b})

\* A binding this handler manages: it has a condition with the handler's title.
Managed(b) == b.condition.present /\ b.condition.title = conditionTitle

\* The expression has the template's shape and an RFC3339 timestamp.
Decodable(b) ==
    /\ b.condition.expression.format = "request.time < timestamp('%s')"
    /\ b.condition.expression.stamp.layout = "RFC3339"

\* The instant a decodable expression names.
DecodedExpiry(b) == b.condition.expression.stamp.sec * TicksPerSecond

Undecodable(b) == Managed(b) /\ ~Decodable(b)
Expired(b) == Managed(b) /\ Decodable(b) /\ DecodedExpiry(b) < now

Requested(r) == IF r \in DOMAIN rlast.bsMap THEN rlast.bsMap[r] ELSE {}

\* The bindings the last pass kept from the fetched policy: all of them after
\* a Remove pass, all but the appended ones after an Add pass.
KeptBindings ==
    IF rlast.op = "Add"
    THEN SubSeq(rp.bindings, 1, Len(rp.bindings) - Cardinality(DOMAIN rlast.bsMap))
    ELSE rp.bindings
AppendedBindings ==
    IF rlast.op = "Add"
    THEN SubSeq(rp.bindings, Len(rp.bindings) - Cardinality(DOMAIN rlast.bsMap) + 1,
                Len(rp.bindings))
    ELSE <<>>

\* C1: a pass (Add or Remove) leaves every binding without the handler's
\* title (no condition, or another title) in the policy with the same role,
\* members and condition, and creates none: each such binding occurs as often
\* after the pass as before it.
C1_NonInterference ==
    rlast.op # "none" =>
        \A b \in Range(rlast.fetched.bindings) \cup Range(rp.bindings) :
            ~Managed(b) => Count(b, rp.bindings) = Count(b, rlast.fetched.bindings)

\* C1 witness: an Add pass over a policy holding an unconditional binding and
\* a binding of another title, both of a role and with members the request
\* names, that changed the policy.
C1_Witness ==
    /\ rlast.op = "Add"
    /\ \E i, j \in DOMAIN rlast.fetched.bindings :
        /\ ~rlast.fetched.bindings[i].condition.present
        /\ rlast.fetched.bindings[j].condition.present
        /\ ~Managed(rlast.fetched.bindings[j])
        /\ Range(rlast.fetched.bindings[i].members)
                \subseteq Requested(rlast.fetched.bindings[i].role)
    /\ rp.bindings # rlast.fetched.bindings

\* C2 as stated: a binding with the handler's title whose expression cannot be
\* decoded is left unchanged and never dropped by any pass, whatever the
\* request.
C2_UndecodableUntouched ==
    rlast.op # "none" =>
        SelectSeq(rp.bindings, Undecodable)
            = SelectSeq(rlast.fetched.bindings, Undecodable)

\* What C2 as amended expects a pass to leave of one undecodable binding.
C2_Reduced(b) ==
    IF b.role \in DOMAIN rlast.bsMap
    THEN [b EXCEPT !.members = SelectSeq(@, LAMBDA m : m \notin rlast.bsMap[b.role])]
    ELSE b
C2_Survives(b) == b.role \notin DOMAIN rlast.bsMap \/ Len(b.members) > 0

\* C2 as amended: a binding with the handler's title whose expression cannot
\* be decoded is never dropped as expired; a pass keeps it unchanged when the
\* request does not name its role, and otherwise removes exactly the requested
\* members from it, keeping role and condition, and drops it only when no
\* member remains.
C2_UndecodableKeptUnlessRequested ==
    rlast.op # "none" =>
        LET before == SelectSeq(rlast.fetched.bindings, Undecodable) IN
        SelectSeq(rp.bindings, Undecodable)
            = SelectSeq([i \in DOMAIN before |-> C2_Reduced(before[i])], C2_Survives)

\* C2 witness: a pass over a policy with an undecodable binding of the
\* handler's title, for a request naming its role and one of its two members.
C2_Witness ==
    /\ rlast.op # "none"
    /\ \E i \in DOMAIN rlast.fetched.bindings :
        LET b == rlast.fetched.bindings[i] IN
        /\ Undecodable(b)
        /\ b.members = <<"user:a", "user:b">>
        /\ Requested(b.role) = {"user:a"}
        /\ \E k \in DOMAIN rp.bindings :
              rp.bindings[k] = [b EXCEPT !.members = <<"user:b">>]

\* C3: no binding of the fetched policy that carries the handler's title and
\* a decodable expiry before the current time is kept by a pass, whether or
\* not the request names its role.
C3_ExpiredCleanup ==
    rlast.op # "none" =>
        \A i \in DOMAIN KeptBindings : ~Expired(KeptBindings[i])

\* C3 witness: a pass over a policy with an expired binding of a role the
\* request does not name.
C3_Witness ==
    /\ rlast.op # "none"
    /\ \E i \in DOMAIN rlast.fetched.bindings :
        /\ Expired(rlast.fetched.bindings[i])
        /\ rlast.fetched.bindings[i].role \notin DOMAIN rlast.bsMap
    /\ DOMAIN rlast.bsMap # {}

ManagedOfRole(bindings, r) ==
    {i \in DOMAIN bindings : Managed(bindings[i]) /\ bindings[i].role = r}

\* C4 as stated: the policy a pass returns has at most one binding with the
\* handler's title for each role.
C4_OneManagedBindingPerRole ==
    rlast.op # "none" =>
        \A r \in Roles : Cardinality(ManagedOfRole(rp.bindings, r)) <= 1

\* The members of a set in sort.Strings order.
Sorted(S) ==
    CHOOSE s \in [1..Cardinality(S) -> S] :
        /\ Range(s) = S
        /\ \A i, j \in DOMAIN s :
              i < j => \E x, y \in DOMAIN UserOrder :
                          x < y /\ UserOrder[x] = s[i] /\ UserOrder[y] = s[j]

\* C4 as amended: a pass adds at most one binding with the handler's title
\* for each role. An Add pass appends exactly one binding for each distinct
\* role of the request, holding the union of the members requested for that
\* role, and none for another role; a Remove pass appends none. Bindings of
\* the role that were in the policy before may remain beside the new one.
C4_OneNewBindingPerRole ==
    rlast.op # "none" =>
        /\ \A r \in Roles :
              Cardinality(ManagedOfRole(rp.bindings, r))
                <= Cardinality(ManagedOfRole(rlast.fetched.bindings, r))
                     + (IF rlast.op = "Add" /\ r \in DOMAIN rlast.bsMap THEN 1 ELSE 0)
        /\ rlast.op = "Add" =>
              /\ Len(rp.bindings) >= Cardinality(DOMAIN rlast.bsMap)
              /\ \A r \in DOMAIN rlast.bsMap :
                    \E i \in DOMAIN AppendedBindings :
                        /\ AppendedBindings[i].role = r
                        /\ AppendedBindings[i].members = Sorted(rlast.bsMap[r])
                        /\ \A j \in DOMAIN AppendedBindings :
                              AppendedBindings[j].role = r => j = i

\* C4 witness: an Add pass for a request naming one role in two entries with
\* different members, over a policy whose binding of that role keeps a member.
C4_Witness ==
    /\ rlast.op = "Add"
    /\ DOMAIN rlast.bsMap = {"roles/viewer"}
    /\ \E i \in DOMAIN AppendedBindings :
          AppendedBindings[i].members = <<"user:a", "user:b">>
    /\ Cardinality(ManagedOfRole(rp.bindings, "roles/viewer")) = 1

\* The binding an Add for role r with the last request and expiry is to leave.
C5_Expected(r) ==
    [role |-> r,
     members |-> Sorted(rlast.bsMap[r]),
     condition |->
        [present |-> TRUE, title |-> conditionTitle,
         expression |->
            [format |-> "request.time < timestamp('%s')",
             stamp |-> [layout |-> "RFC3339",
                        sec |-> rlast.expiry \div TicksPerSecond]]]]

TwoAdds ==
    /\ rphase = "pass2"
    /\ rlast.op = "Add"
    /\ rfirst.op = "Add"
    /\ rfirst.bsMap = rlast.bsMap
    /\ rfirst.expiry < rlast.expiry

\* C5 as stated: after Add for role r and members M with expiry e1 and then
\* Add for the same r and M with a later expiry e2, the policy has exactly one
\* binding with the handler's title for role r, with exactly M and the
\* expression of e2.
C5_AddTwiceOneBinding ==
    TwoAdds =>
        \A r \in DOMAIN rlast.bsMap :
            /\ Cardinality(ManagedOfRole(rp.bindings, r)) = 1
            /\ \A i \in ManagedOfRole(rp.bindings, r) : rp.bindings[i] = C5_Expected(r)

\* C5 as amended: after the two Adds exactly one binding of the policy is the
\* binding of role r with exactly M and the expression of e2, and no other
\* binding with the handler's title for role r holds a member of M (the
\* binding the first Add appended is gone); bindings of role r that were in
\* the policy before and hold other members remain.
C5_AddTwiceOneBindingForMembers ==
    TwoAdds =>
        \A r \in DOMAIN rlast.bsMap :
            /\ Count(C5_Expected(r), rp.bindings) = 1
            /\ \A i \in ManagedOfRole(rp.bindings, r) :
                  rp.bindings[i] # C5_Expected(r) =>
                      Range(rp.bindings[i].members) \cap rlast.bsMap[r] = {}

\* C5 witness: two Adds of the same role and two members, the second with an
\* expiry in a later second.
C5_Witness ==
    /\ TwoAdds
    /\ rfirst.expiry \div TicksPerSecond < rlast.expiry \div TicksPerSecond
    /\ "roles/viewer" \in DOMAIN rlast.bsMap
    /\ rlast.bsMap["roles/viewer"] = {"user:a", "user:b"}
    /\ Count(C5_Expected("roles/viewer"), rp.bindings) = 1

\* ------------------------------------------------------------------------
\* Properties of the handler machine
\* ------------------------------------------------------------------------
\* The entry i of the request names a resource of one of the three clients.
ValidEntry(i) == Head(req[i].resource) \in Levels

\* The entries among the first i finished ones that got a response.
OkUpTo(i) == Cardinality({j \in 1..i : log[j].status = "ok"})

\* C6: in Do and in Cleanup every entry of the request is processed whatever
\* happened to the entries before it: when the invocation returns, every entry
\* has been through handlePolicy, and, the context not being cancelled,
\* GetIamPolicy was called for every entry with a valid resource. An entry whose
\* SetIamPolicy succeeded has its response among the results, and its policy
\* is the one stored as long as nothing was written over it.
C6_PerScopeIndependence ==
    /\ pc = "done" => Len(log) = Len(req)
    /\ \A i \in DOMAIN log :
        /\ (~ctxDone /\ ValidEntry(i)) => log[i].fetched
        /\ log[i].status = "ok" =>
            /\ OkUpTo(i) \in DOMAIN nps
            /\ nps[OkUpTo(i)].resource = req[i].resource
            /\ lastWriter[Head(req[i].resource)] = i =>
                    store[Head(req[i].resource)] = nps[OkUpTo(i)].policy

\* A returned invocation whose first entry failed and whose second entry was
\* fetched, written and returned.
C6_Witness ==
    /\ pc = "done"
    /\ ~ctxDone
    /\ Len(log) = 2
    /\ log[1].status = "failed"
    /\ log[2].status = "ok" /\ log[2].fetched
    /\ Len(retErr) = 1
    /\ Len(nps) = 1
    /\ store[Head(req[2].resource)] = nps[1].policy

\* C7: once a call for an entry has failed with an error that is not
\* retryable (PermissionDenied), no further GetIamPolicy or SetIamPolicy is
\* issued for that entry.
C7_NoCallAfterPermanentError == ~afterPerm

\* An attempt reaching SetIamPolicy for an entry a call of which was denied
\* before.
C7_Witness == pc = "set" /\ permSeen /\ afterPerm /\ gets > 1

\* C8: with the default retry configuration, an entry whose calls fail with
\* retryable errors only goes through at most 5 attempts.
C8_AtMostFiveAttempts == ~permSeen => gets <= 5

\* The sixth attempt of an entry, after five failures that were all
\* retryable, on a handler whose retry counter started at zero.
C8_Witness ==
    /\ gets = DefaultMaxRetries + 1
    /\ ~permSeen
    /\ ~ctxDone
    /\ Len(log) = 0
    /\ retryAttempt = DefaultMaxRetries

\* The policies updateFunc can leave when given p for the current entry.
UpdatesOf(p) ==
    IF op = "Do"
    THEN {addBindings(p, req[idx].bindings, doExpiry, now, conditionTitle, o).policy :
            o \in RoleOrders(toBindingsMap(req[idx].bindings))}
    ELSE {cleanupBindings(p, req[idx].bindings, now, conditionTitle).policy}

\* One step of an attempt: the update follows a GetIamPolicy of this attempt
\* and works on its response, SetIamPolicy follows the update and carries a
\* policy the update made of that response, and the handler writes nowhere
\* else.
FetchReconcileWriteStep ==
    /\ (pc' = "update" /\ pc # "update") =>
            /\ pc = "try"
            /\ gets' = gets + 1
    /\ (pc' = "set" /\ pc # "set") => pc = "update"
    /\ pc = "update" => (got.attempt = gets /\ gets > 0 /\ cp = got.policy)
    /\ pc = "set" => (got.attempt = gets /\ gets > 0 /\ cp \in UpdatesOf(got.policy))
    /\ pc = "try" => got = NoCall
    /\ (store' # store /\ extWrites' = extWrites) =>
            /\ pc = "set"
            /\ store' = [store EXCEPT ![Head(req[idx].resource)] = cp]

\* C9: in every attempt the order is GetIamPolicy, updateFunc, SetIamPolicy;
\* the policy SetIamPolicy carries is computed from the response GetIamPolicy
\* gave in the same attempt, and no SetIamPolicy is issued in an attempt whose
\* GetIamPolicy failed.
C9_FetchReconcileWrite == [][FetchReconcileWriteStep]_vars

\* A second attempt about to write, on a policy fetched in that attempt after
\* another writer changed it.
C9_Witness ==
    /\ pc = "set"
    /\ gets = 2
    /\ got.attempt = 2
    /\ extWrites = 1
    /\ got.policy = store[Head(req[idx].resource)]
    /\ got.policy # SeedStore[Head(req[idx].resource)]

\* C10: an entry that ended in an error leaves the policy of its resource as
\* it was when handlePolicy was entered, and gets no response; a resource no
\* entry succeeded on holds the policy it held before the invocation, and so
\* do the clients no entry names (writes by others apart).
C10_StateUnchangedOnFailure ==
    /\ (pc \in {"entry", "done"} /\ log # <<>> /\ log[Len(log)].status = "failed") =>
            store[Head(req[Len(log)].resource)] = entryBase[Head(req[Len(log)].resource)]
    /\ Len(nps) = OkUpTo(Len(log))
    /\ \A l \in Levels :
        (\A i \in DOMAIN log : Head(req[i].resource) = l => log[i].status = "failed")
            => store[l] = invBase[l]
    /\ \A l \in Levels :
        (\A i \in DOMAIN req : Head(req[i].resource) # l) => store[l] = invBase[l]

\* A returned invocation of one entry whose attempts were used up, the last
\* of them failing in SetIamPolicy, with the store as it was.
C10_Witness ==
    /\ pc = "done"
    /\ ~ctxDone
    /\ extWrites = 0
    /\ Len(req) = 1
    /\ log[1].status = "failed"
    /\ retryAttempt = DefaultMaxRetries
    /\ retErr[1].err[Len(retErr[1].err)].msg = "failed to set IAM policy"
    /\ nps = <<>>
    /\ store = SeedStore

\* The policy the last attempt of the finished entry i fetched holds a binding
\* of the handler's title whose expression does not decode.
FetchedUndecodable(i) == \E b \in Range(log[i].got.bindings) : Undecodable(b)

\* C11 as stated: an entry of Do whose fetched policy holds an undecodable
\* binding of the handler's title, and whose policy was written, comes back
\* with a decode error.
C11_AddSurfacesDecodeErrors ==
    op = "Do" =>
        \A i \in DOMAIN log :
            (log[i].status = "ok" /\ FetchedUndecodable(i)) => log[i].err # <<>>

\* C11: an entry of Do whose policy was written comes back with its response
\* and no error, whether or not the fetched policy held an undecodable binding
\* of the handler's title: addBindings logs the decode errors and returns nil.
C11_AddReportsNoDecodeError ==
    op = "Do" =>
        \A i \in DOMAIN log :
            log[i].status = "ok" => log[i].err = <<>>

\* A Do whose entry fetched a policy with an undecodable binding of the
\* handler's title, wrote its policy and reported nothing.
C11_Witness ==
    /\ op = "Do"
    /\ pc = "done"
    /\ Len(log) = 1
    /\ log[1].status = "ok"
    /\ FetchedUndecodable(1)
    /\ retErr = <<>>
    /\ Len(nps) = 1

\* A step in which the entry at idx finishes with its policy written.
EntryWritten ==
    /\ pc = "set"
    /\ Len(log') = Len(log) + 1
    /\ log'[Len(log')].status = "ok"

\* One step seen from the error of updateFunc: the update is followed by
\* SetIamPolicy in the same attempt whatever it returned, cleanupBindings over
\* an undecodable binding of the handler's title leaves its error in
\* updateErr, and an attempt whose SetIamPolicy succeeds ends the entry without
\* asking for a retry, with the response returned and updateErr as its error.
DecodeErrorStep ==
    /\ pc = "update" =>
            /\ pc' \in {"update", "set"}
            /\ retryAttempt' = retryAttempt
            /\ gets' = gets
            /\ store' = store
    /\ (pc = "update" /\ pc' = "set" /\ op = "Cleanup"
            /\ \E b \in Range(cp.bindings) : Undecodable(b)) => updateErr' # <<>>
    /\ EntryWritten =>
            /\ retryAttempt' = retryAttempt
            /\ store' = [store EXCEPT ![Head(req[idx].resource)] = cp]
            /\ nps' = Append(nps, [resource |-> req[idx].resource, policy |-> cp])
            /\ log'[Len(log')].err = updateErr
            /\ retErr' = IF updateErr = <<>> THEN retErr
                         ELSE Append(retErr, [resource |-> req[idx].resource,
                                              err |-> updateErr])

\* C12: a decode error of the reconciler neither triggers a retry nor
\* prevents the write: the attempt goes on to SetIamPolicy, and when that
\* succeeds the entry ends there, its response is returned, and the decode
\* error (which Cleanup's reconciler reports) is returned with it.
C12_DecodeErrorNoRetry == [][DecodeErrorStep]_vars

\* A Cleanup of one entry over a policy with an undecodable binding of the
\* handler's title: one attempt, the policy written, the response and the
\* decode error both returned.
C12_Witness ==
    /\ op = "Cleanup"
    /\ pc = "done"
    /\ Len(log) = 1
    /\ log[1].status = "ok"
    /\ FetchedUndecodable(1)
    /\ retryAttempt = 0
    /\ Len(nps) = 1
    /\ Len(retErr) = 1
    /\ retErr[1].err = log[1].err
    /\ log[1].err # <<>>

\* No attempt is ever in flight for an entry whose resource is of no client,
\* and such an entry ends as invalid, unfetched, with an error and no response.
InvalidEntriesUncalled ==
    /\ pc \in {"try", "update", "set"} => ValidEntry(idx)
    /\ \A i \in DOMAIN log :
        ~ValidEntry(i) =>
            /\ log[i].status = "invalid"
            /\ ~log[i].fetched
            /\ log[i].err # <<>>
    /\ Len(nps) = Cardinality({i \in DOMAIN log : ValidEntry(i) /\ log[i].status = "ok"})
    /\ pc = "done" => Len(log) = Len(req)

\* The step handling an entry whose resource is of no client: the stores and
\* the retry counter are left alone, an error naming the resource is joined,
\* no response is added and the loop is at the next entry.
InvalidEntryStep ==
    (pc = "entry" /\ idx \in DOMAIN req /\ ~ValidEntry(idx)) =>
        \/ UNCHANGED vars
        \/ /\ store' = store
           /\ retryAttempt' = retryAttempt
           /\ gets' = 0
           /\ nps' = nps
           /\ Len(retErr') = Len(retErr) + 1
           /\ retErr'[Len(retErr')].resource = req[idx].resource
           /\ idx' = idx + 1
           /\ pc' = "entry"

\* C13: an entry whose resource does not start with organizations, folders or
\* projects fails at once and alone: no GetIamPolicy or SetIamPolicy is issued
\* for it, it takes no retry, it yields an error and no response, and the
\* entries after it are processed.
C13_InvalidScopeFailsAlone == []InvalidEntriesUncalled /\ [][InvalidEntryStep]_vars

\* A returned invocation whose first entry names a resource of no client and
\* whose second entry was fetched and written.
C13_Witness ==
    /\ pc = "done"
    /\ Len(req) = 2
    /\ ~ValidEntry(1) /\ ValidEntry(2)
    /\ log[1].status = "invalid"
    /\ log[2].status = "ok" /\ log[2].fetched
    /\ Len(retErr) = 1 /\ retErr[1].resource = req[1].resource
    /\ Len(nps) = 1 /\ nps[1].resource = req[2].resource
    /\ retryAttempt = 0

\* ------------------------------------------------------------------------
\* Properties of the two handlers on one resource
\* ------------------------------------------------------------------------
\* The policy p holds the grant the handler was asked for: a binding of role r
\* with the handler's title that names member m.
HasGrant(p, r, m) ==
    \E b \in Range(p.bindings) :
        Managed(b) /\ b.role = r /\ m \in Range(b.members)

\* Both handlers are back, each with its policy written.
BothWritten ==
    /\ pc = "done"
    /\ Len(log) = 1
    /\ log[1].status = "ok"
    /\ peer.pc = "done"

\* C14: SetIamPolicy stores the policy it carries without comparing it with
\* what the store holds, so when two handlers reconcile the same resource and
\* both succeed, the stored policy is the one the later writer sent, computed
\* from what that writer fetched; there is an interleaving (the witness) in
\* which it lacks the grant of the other.
C14_LastWriterWins ==
    BothWritten =>
        /\ HasGrant(nps[1].policy, "roles/viewer", "user:a")
        /\ HasGrant(peer.cp, "roles/editor", "user:b")
        /\ lastWriter[Head(RaceResource)] = 1 =>
                /\ store[Head(RaceResource)] = nps[1].policy
                /\ HasGrant(nps[1].policy, "roles/editor", "user:b")
                        <=> HasGrant(log[1].got, "roles/editor", "user:b")
        /\ lastWriter[Head(RaceResource)] = 0 => store[Head(RaceResource)] = peer.cp

\* Both handlers report success and the stored policy lacks the grant the
\* second one wrote: the first handler fetched before that write and wrote
\* after it.
C14_Witness ==
    /\ BothWritten
    /\ retErr = <<>>
    /\ retryAttempt = 0
    /\ HasGrant(store[Head(RaceResource)], "roles/viewer", "user:a")
    /\ ~HasGrant(store[Head(RaceResource)], "roles/editor", "user:b")

\* ------------------------------------------------------------------------
\* Properties of the reconciler machine, continued
\* ------------------------------------------------------------------------
\* The roles the entries of the last request name, and the members its
\* entries of role r name.
RequestedRoles == {rlast.bs[i].role : i \in DOMAIN rlast.bs}
RequestedMembers(r) ==
    UNION {Range(rlast.bs[i].members) : i \in {j \in DOMAIN rlast.bs : rlast.bs[j].role = r}}

\* The last n bindings of the policy.
LastBindings(n) == SubSeq(rp.bindings, Len(rp.bindings) - n + 1, Len(rp.bindings))

\* The binding the claim describes for role r: the handler's title, the
\* template filled with the requested expiry, the sorted union of the members.
GrantOf(r) ==
    [role |-> r,
     members |-> Sorted(RequestedMembers(r)),
     condition |-> [present |-> TRUE, title |-> conditionTitle,
                    expression |-> [format |-> "request.time < timestamp('%s')",
                                    stamp |-> [layout |-> "RFC3339",
                                               sec |-> rlast.expiry \div TicksPerSecond]]]]

\* C15: an Add pass appends, after the bindings it keeps, exactly one binding
\* for each distinct role of the request, with the handler's title, the expiry
\* template filled with the requested expiry and the sorted union, without
\* duplicates, of the members of all entries of that role; the policy gets
\* version 3; on a policy without bindings the result holds these bindings
\* and no other.
C15_AddResult ==
    rlast.op = "Add" =>
        /\ Len(rp.bindings) >= Cardinality(RequestedRoles)
        /\ Len(rp.bindings) <= Len(rlast.fetched.bindings) + Cardinality(RequestedRoles)
        /\ \A r \in RequestedRoles :
              Count(GrantOf(r), LastBindings(Cardinality(RequestedRoles))) = 1
        /\ rp.version = 3
        /\ rlast.fetched.bindings = <<>> =>
              Len(rp.bindings) = Cardinality(RequestedRoles)

\* An Add pass over a policy without bindings for a request whose two entries
\* name the same role with different members: one binding with both members.
C15_Witness ==
    /\ rlast.op = "Add"
    /\ rphase = "pass1"
    /\ rlast.fetched.bindings = <<>>
    /\ Len(rlast.bs) = 2
    /\ RequestedRoles = {"roles/viewer"}
    /\ rp.bindings = <<GrantOf("roles/viewer")>>
    /\ GrantOf("roles/viewer").members = <<"user:a", "user:b">>
    /\ rp.version = 3

\* C16: a policy that leaves a pass (Add or Remove) to be written, and holds
\* at least one binding with the handler's title, has version 3.
C16_ManagedImpliesVersion3 ==
    rlast.op # "none" =>
        ((\E b \in Range(rp.bindings) : Managed(b)) => rp.version = 3)

\* A Remove pass leaving a binding with the handler's title in a policy whose
\* version is the one it was fetched with, which is not 3.
C16_Witness ==
    /\ rlast.op = "Remove"
    /\ rphase = "pass1"
    /\ \E b \in Range(rp.bindings) : Managed(b) /\ ~Expired(b)
    /\ rp.version = rlast.fetched.version
    /\ rp.version # 3

\* A binding with the handler's title whose expression decodes to an instant
\* that is not before now.
Unexpired(b) == Managed(b) /\ Decodable(b) /\ ~(DecodedExpiry(b) < now)

\* The binding b without the members the last request names for its role, and
\* whether the claim has it kept.
WithoutRequested(b) ==
    IF b.role \in RequestedRoles
    THEN [b EXCEPT !.members = SelectSeq(@, LAMBDA m : m \notin RequestedMembers(b.role))]
    ELSE b
KeptAfterRemoval(b) == b.role \notin RequestedRoles \/ Len(b.members) > 0

\* C17: a Remove pass takes from an unexpired binding with the handler's title
\* exactly the members requested for its role: the binding stays, with the
\* same role and condition and the remaining members in their order, when a
\* member remains, and is dropped when none does; such a binding of a role the
\* request does not name stays as it is. The pass adds no such binding and
\* keeps their order.
C17_PartialRemoval ==
    rlast.op = "Remove" =>
        LET before == SelectSeq(rlast.fetched.bindings, Unexpired) IN
        SelectSeq(rp.bindings, Unexpired)
            = SelectSeq([i \in DOMAIN before |-> WithoutRequested(before[i])],
                        KeptAfterRemoval)

\* A Remove pass over an unexpired binding of the handler's title with two
\* members, for a request naming its role and one of them: the binding is left
\* with the other member.
C17_Witness ==
    /\ rlast.op = "Remove"
    /\ rphase = "pass1"
    /\ RequestedRoles = {"roles/viewer"}
    /\ RequestedMembers("roles/viewer") = {"user:a"}
    /\ Len(rlast.fetched.bindings) = 1
    /\ Unexpired(rlast.fetched.bindings[1])
    /\ rlast.fetched.bindings[1].members = <<"user:a", "user:b">>
    /\ rp.bindings = <<[rlast.fetched.bindings[1] EXCEPT !.members = <<"user:b">>]>>

\* ------------------------------------------------------------------------
\* Properties of the handler machine, continued
\* ------------------------------------------------------------------------
\* The finished entries whose policy was written, and the others, in the
\* order of the request.
WrittenEntries == SelectSeq([i \in DOMAIN log |-> i], LAMBDA i : log[i].status = "ok")
FailedEntries == SelectSeq([i \in DOMAIN log |-> i], LAMBDA i : log[i].status # "ok")

\* C18: in Do, the joined error is nil exactly when every entry handled so
\* far went through its fetch, update and write; the results hold one response
\* for each entry whose write succeeded, and no other; and the joined error
\* names the resource of each entry that has no response. This holds when Do
\* returns, all entries being handled by then.
C18_DoErrorAndResults ==
    op = "Do" =>
        /\ (retErr = <<>>) <=> (\A i \in DOMAIN log : log[i].status = "ok")
        /\ Len(nps) = Len(WrittenEntries)
        /\ \A k \in DOMAIN nps : nps[k].resource = req[WrittenEntries[k]].resource
        /\ Len(retErr) = Len(FailedEntries)
        /\ \A k \in DOMAIN retErr : retErr[k].resource = req[FailedEntries[k]].resource
        /\ pc = "done" => Len(log) = Len(req)

\* A Do of two entries back with the response of the first and an error
\* naming the second.
C18_Witness ==
    /\ op = "Do"
    /\ pc = "done"
    /\ Len(req) = 2
    /\ log[1].status = "ok"
    /\ log[2].status = "failed"
    /\ Len(nps) = 1 /\ nps[1].resource = req[1].resource
    /\ Len(retErr) = 1 /\ retErr[1].resource = req[2].resource
    /\ req[1].resource # req[2].resource

\* A step of the handler taken under a cancelled context: the context stays cancelled, no
\* policy is stored, no attempt starts (nothing is fetched), retry.Do at the
\* top of its loop returns with an error for the entry, and an entry that
\* finishes is not a written one; an entry reached after the cancellation
\* finishes without a call.
CancelledStep ==
    (ctxDone /\ extWrites' = extWrites) =>
        /\ ctxDone'
        /\ store' = store
        /\ gets' <= gets
        /\ pc' = "update" => pc = "update"
        /\ pc = "try" =>
            /\ pc' = "entry"
            /\ log' = Append(log, [status |-> "failed", fetched |-> gets > 0,
                                   got |-> ZeroPolicy, err |-> log'[Len(log')].err])
            /\ log'[Len(log')].err # <<>>
            /\ retErr' = Append(retErr, [resource |-> req[idx].resource,
                                         err |-> log'[Len(log')].err])
            /\ nps' = nps
        /\ Len(log') > Len(log) => log'[Len(log')].status # "ok"
        /\ pc = "entry" =>
            /\ gets = 0
            /\ pc' \in {"try", "entry", "done"}
            /\ Len(log') > Len(log) => ~log'[Len(log')].fetched

\* ------------------------------------------------------------------------
\* Termination of Do and Cleanup
\* ------------------------------------------------------------------------
\* The steps of the goroutine that runs Do or Cleanup: each is a call that
\* returns (the servers answer every call, with a result or an error, and the
\* delays of the backoff are finite), so the goroutine being scheduled, a step
\* that stays possible is taken. The caller's cancellation and the writes of
\* others are not owed.
HandlerStep ==
    \/ Dispatch
    \/ Return
    \/ RetryCanceled
    \/ GetIamPolicy
    \/ UpdatePolicy
    \/ SetIamPolicy

\* Do and Cleanup with the caller's cancellation, the servers answering as they
\* please and nobody else writing.
NextLive ==
    \/ StartDo
    \/ StartCleanup
    \/ HandlerStep
    \/ Cancel

SpecLive == Init /\ [][NextLive]_vars /\ WF_vars(HandlerStep)

\* C19: once the context is cancelled, the retry loop of the entry at hand
\* starts no attempt and returns an error, no fetch and no write is started
\* for a later entry of the invocation, and the invocation returns.
C19_NoAttemptAfterCancel ==
    /\ [][CancelledStep]_vars
    /\ [](ctxDone => <>(pc = "done" /\ Len(log) = Len(req)))

\* A Do of two entries, cancelled during the first after a fetch: the first
\* failed, the second failed without a call, and Do is back.
C19_Witness ==
    /\ ctxDone
    /\ pc = "done"
    /\ Len(log) = 2
    /\ log[1].status = "failed" /\ log[1].fetched
    /\ log[2].status = "failed" /\ ~log[2].fetched
    /\ Len(retErr) = 2
    /\ nps = <<>>

\* C20: every Do and every Cleanup returns, whatever the servers answer: the
\* fetches of one entry never exceed one more than the retries allowed, an
\* entry whose calls keep failing ends as a failure of that entry, and the
\* invocation is back with each entry of the request handled once.
C20_Terminates ==
    /\ [](gets <= DefaultMaxRetries + 1 /\ Len(log) <= Len(req))
    /\ [](pc # "idle" => <>(pc = "done" /\ Len(log) = Len(req)))

\* A Do or Cleanup back after a first entry that failed at every attempt
\* retry.Do allowed, the calls of the second entry then failing once.
C20_Witness ==
    /\ pc = "done"
    /\ ~ctxDone
    /\ Len(req) = 2
    /\ retryAttempt = DefaultMaxRetries
    /\ log[1].status = "failed" /\ log[1].fetched
    /\ log[2].status = "failed" /\ log[2].fetched
    /\ Len(retErr) = 2

\* ------------------------------------------------------------------------
\* Properties of the reconciler, continued
\* ------------------------------------------------------------------------
\* The bindings of the handler's title and role r that hold member m.
HoldersOf(bindings, r, m) ==
    {i \in ManagedOfRole(bindings, r) : m \in Range(bindings[i].members)}

\* C22: after an Add pass, a member m requested for role r is in exactly one
\* binding of the handler's title and role r: the binding the pass appended,
\* which carries the requested expiry. m is in none of the bindings of the
\* title and role that were in the policy before.
C22_AddDeduplicatesMembers ==
    rlast.op = "Add" =>
        \A r \in DOMAIN rlast.bsMap : \A m \in rlast.bsMap[r] :
            /\ Cardinality(HoldersOf(rp.bindings, r, m)) = 1
            /\ \A i \in HoldersOf(rp.bindings, r, m) :
                  /\ i > Len(KeptBindings)
                  /\ rp.bindings[i].condition = C5_Expected(r).condition
            /\ HoldersOf(KeptBindings, r, m) = {}

\* An Add pass for user:a over a policy in which user:a was in two bindings of
\* the title and role, one unexpired and one that does not decode; both are
\* still there, with user:b only.
C22_Witness ==
    /\ rlast.op = "Add"
    /\ rphase = "pass1"
    /\ rlast.bsMap = [r \in {"roles/viewer"} |-> {"user:a"}]
    /\ \E i, j \in DOMAIN rlast.fetched.bindings :
          /\ Unexpired(rlast.fetched.bindings[i])
          /\ Undecodable(rlast.fetched.bindings[j])
    /\ Cardinality(HoldersOf(rlast.fetched.bindings, "roles/viewer", "user:a")) = 2
    /\ Len(KeptBindings) = 2
    /\ Cardinality(HoldersOf(rp.bindings, "roles/viewer", "user:a")) = 1

\* The members of a binding the last request does not name for its role.
Unrequested(b) == {m \in Range(b.members) : m \notin Requested(b.role)}

\* C24: an Add pass leaves the access it was not asked about at its expiry. An
\* unexpired binding of the handler's title and a requested role that holds a
\* member the request does not name stays in the policy, at its place among
\* such bindings, with its role, its condition and exactly the members the
\* request does not name; the requested members are in the appended binding
\* of the role, under the requested expiry.
C24_AddKeepsOtherExpiries ==
    rlast.op = "Add" =>
        LET Stays(b) == Unexpired(b) /\ b.role \in DOMAIN rlast.bsMap
                            /\ Unrequested(b) # {}
            before == SelectSeq(rlast.fetched.bindings, Stays)
            after == SelectSeq(KeptBindings,
                               LAMBDA b : Unexpired(b) /\ b.role \in DOMAIN rlast.bsMap)
        IN /\ after = [i \in DOMAIN before |->
                         [before[i] EXCEPT !.members =
                             SelectSeq(@, LAMBDA m : m \notin Requested(before[i].role))]]
           /\ \A r \in DOMAIN rlast.bsMap : \A m \in rlast.bsMap[r] :
                 \E i \in DOMAIN AppendedBindings :
                     /\ AppendedBindings[i].role = r
                     /\ m \in Range(AppendedBindings[i].members)
                     /\ AppendedBindings[i].condition = C5_Expected(r).condition

\* An Add pass for user:a over a policy whose unexpired binding of the title
\* and role, expiring in another second than the requested one, holds user:a
\* and user:b: user:b is left in it under the old expression.
C24_Witness ==
    /\ rlast.op = "Add"
    /\ rphase = "pass1"
    /\ rlast.bsMap = [r \in {"roles/viewer"} |-> {"user:a"}]
    /\ \E i \in DOMAIN rlast.fetched.bindings :
          LET b == rlast.fetched.bindings[i] IN
          /\ Unexpired(b)
          /\ b.members = <<"user:a", "user:b">>
          /\ DecodedExpiry(b) \div TicksPerSecond # rlast.expiry \div TicksPerSecond
          /\ \E k \in DOMAIN KeptBindings :
                KeptBindings[k] = [b EXCEPT !.members = <<"user:b">>]

\* C25: after a Remove pass no binding of the handler's title holds, for its
\* role, a member the request names for that role, whether the expression of
\* the binding is unexpired, expired or does not decode. (The members the
\* request names are read from its entries, whatever entry names them.)
C25_RevocationComplete ==
    rlast.op = "Remove" =>
        \A i \in DOMAIN rlast.bs : \A m \in Range(rlast.bs[i].members) :
            HoldersOf(rp.bindings, rlast.bs[i].role, m) = {}

\* A Remove pass for user:a and user:b, named by two entries, over a policy
\* holding them in an unexpired binding of the title and in one that does not
\* decode: both bindings are gone.
C25_Witness ==
    /\ rlast.op = "Remove"
    /\ rphase = "pass1"
    /\ Len(rlast.bs) = 2
    /\ rlast.bsMap = [r \in {"roles/viewer"} |-> {"user:a", "user:b"}]
    /\ \E i, j \in DOMAIN rlast.fetched.bindings :
          /\ Unexpired(rlast.fetched.bindings[i])
          /\ Undecodable(rlast.fetched.bindings[j])
    /\ rp.bindings = <<>>

\* C27: every binding an Add pass appends has at least one member, whatever
\* the request, a request with an entry naming no member included.
C27_AppendedBindingsHaveMembers ==
    rlast.op = "Add" =>
        \A i \in DOMAIN AppendedBindings : Len(AppendedBindings[i].members) > 0

\* An Add pass for a request whose only entry names roles/viewer and no
\* member: the policy leaves with a binding of the handler's title for the
\* role and no member.
C27_Witness ==
    /\ rlast.op = "Add"
    /\ rphase = "pass1"
    /\ rlast.bs = <<[role |-> "roles/viewer", members |-> <<>>]>>
    /\ Len(AppendedBindings) = 1
    /\ Managed(AppendedBindings[1])
    /\ AppendedBindings[1].role = "roles/viewer"
    /\ AppendedBindings[1].members = <<>>

\* ------------------------------------------------------------------------
\* Properties of the condition title (checked under SpecTitle)
\* ------------------------------------------------------------------------
\* The title the options ask for: the last one given, "" when none is.
RequestedTitle == IF opts = <<>> THEN "" ELSE opts[Len(opts)]

\* What a pass is to leave of a binding it manages (see C3, C17, C2).
ManagedOutcome(b) ==
    IF Expired(b) THEN <<>>
    ELSE IF b.role \notin DOMAIN rlast.bsMap THEN <<b>>
    ELSE LET nm == SelectSeq(b.members, LAMBDA m : m \notin rlast.bsMap[b.role]) IN
         IF nm = <<>> THEN <<>> ELSE <<[b EXCEPT !.members = nm]>>

RECURSIVE Flatten(_)
Flatten(ss) == IF ss = <<>> THEN <<>> ELSE Head(ss) \o Flatten(Tail(ss))

\* C21: the handler's title is defaultConditionTitle when no title or an
\* empty one was given, and the given title otherwise. A pass treats a
\* binding as its own exactly when the binding has a condition of that title:
\* such a binding is dropped when expired and loses the requested members,
\* and every other binding, one of the default title under a handler with a
\* custom title included, is left as it is, expired or named in the request or
\* not. The bindings an Add pass appends carry the handler's title.
C21_ManagedIffConfiguredTitle ==
    /\ conditionTitle = (IF RequestedTitle = "" THEN defaultConditionTitle
                         ELSE RequestedTitle)
    /\ rlast.op # "none" =>
          /\ KeptBindings =
                Flatten([i \in DOMAIN rlast.fetched.bindings |->
                    LET b == rlast.fetched.bindings[i] IN
                    IF b.condition.present /\ b.condition.title = conditionTitle
                    THEN ManagedOutcome(b)
                    ELSE <<b>>])
          /\ \A i \in DOMAIN AppendedBindings :
                /\ AppendedBindings[i].condition.present
                /\ AppendedBindings[i].condition.title = conditionTitle

\* A handler built with a custom title, after an Add pass for roles/viewer and
\* both users over a policy with a binding of the default title that names
\* them and whose expression is in the past, and a binding of the custom
\* title: the first is kept as it was, the second is gone, and the appended
\* binding has the custom title.
C21_Witness ==
    /\ opts = <<CustomTitle>>
    /\ conditionTitle = CustomTitle
    /\ rlast.op = "Add"
    /\ rphase = "pass1"
    /\ rlast.bsMap = [r \in {"roles/viewer"} |-> {"user:a", "user:b"}]
    /\ Len(rlast.fetched.bindings) = 2
    /\ rlast.fetched.bindings[1].condition =
            Condition(defaultConditionTitle, ExpiryExpression(0))
    /\ rlast.fetched.bindings[2].condition.title = CustomTitle
    /\ KeptBindings = <<rlast.fetched.bindings[1]>>
    /\ Len(AppendedBindings) = 1
    /\ AppendedBindings[1].condition.title = CustomTitle

\* Two Remove passes with the same request, one after the other, at one time.
TwoRemoves ==
    /\ rphase = "pass2"
    /\ rfirst.op = "Remove"
    /\ rlast.op = "Remove"
    /\ rfirst.bsMap = rlast.bsMap

\* C28: at a fixed current time, the Remove pass applied again with the same
\* request leaves the policy the first pass left.
C28_RemoveIdempotent == TwoRemoves => rp = rlast.fetched

\* Two Remove passes of which the first took a member from a binding, dropped
\* another binding and reported a decode error.
C28_Witness ==
    /\ TwoRemoves
    /\ rfirst.err # <<>>
    /\ Len(rlast.fetched.bindings) < Len(rfirst.fetched.bindings)
    /\ \E i \in DOMAIN rlast.fetched.bindings :
          rlast.fetched.bindings[i].members = <<"user:b">>
    /\ rp = rlast.fetched

\* The (role, member, condition) triples of a policy.
Triples(p) ==
    UNION {{<<p.bindings[i].role, m, p.bindings[i].condition>> :
                m \in Range(p.bindings[i].members)} : i \in DOMAIN p.bindings}

\* s is t with some elements left out.
RECURSIVE IsSubSeq(_, _)
IsSubSeq(s, t) ==
    IF s = <<>> THEN TRUE
    ELSE IF t = <<>> THEN FALSE
    ELSE IF Head(s) = Head(t) THEN IsSubSeq(Tail(s), Tail(t))
    ELSE IsSubSeq(s, Tail(t))

\* The bindings kept are, in order, bindings of before with some members left
\* out.
RECURSIVE Reduces(_, _)
Reduces(after, before) ==
    IF after = <<>> THEN TRUE
    ELSE IF before = <<>> THEN FALSE
    ELSE \/ /\ Head(after).role = Head(before).role
            /\ Head(after).condition = Head(before).condition
            /\ IsSubSeq(Head(after).members, Head(before).members)
            /\ Reduces(Tail(after), Tail(before))
         \/ Reduces(after, Tail(before))

\* C29: a Remove pass only removes. Every (role, member, condition) of the
\* policy it leaves was in the fetched policy; its bindings are bindings of the
\* fetched policy, in their order, with members left out, none being created;
\* and the version is the fetched one.
C29_RemoveOnlyRemoves ==
    rlast.op = "Remove" =>
        /\ Triples(rp) \subseteq Triples(rlast.fetched)
        /\ Reduces(rp.bindings, rlast.fetched.bindings)
        /\ Len(rp.bindings) <= Len(rlast.fetched.bindings)
        /\ rp.version = rlast.fetched.version

\* A Remove pass that dropped one binding and took a member from another, the
\* version being the fetched one.
C29_Witness ==
    /\ rlast.op = "Remove"
    /\ rphase = "pass1"
    /\ Len(rlast.fetched.bindings) = 2
    /\ Len(rp.bindings) = 1
    /\ rp.bindings[1].members = <<"user:b">>
    /\ Triples(rp) # Triples(rlast.fetched)
    /\ rp.version = 1

\* ------------------------------------------------------------------------
\* The commands "iam handle" and "iam cleanup" (pkg/cli) in front of the
\* handler: Run checks the flags, reads and validates the request file, builds
\* the handler and calls Do or Cleanup.
\* ------------------------------------------------------------------------
\* The files under the paths a caller passes. The members stand for
\* addresses: "user:a" for user:a@example.com.
FileInputs ==
    [valid |->
        [exists |-> TRUE, data |-> "yaml",
         req |-> <<[resource |-> <<"projects", "baz">>,
                    bindings |-> <<[role |-> "roles/viewer", members |-> <<"user:a">>]>>]>>],
     invalidRequest |->
        [exists |-> TRUE, data |-> "yaml",
         req |-> <<[resource |-> <<"organizations", "foo">>,
                    bindings |-> <<[role |-> "roles/viewer",
                                    members |-> <<"group:a", "user:b">>]>>]>>],
     invalidResource |->
        [exists |-> TRUE, data |-> "yaml",
         req |-> <<[resource |-> <<"billingAccounts", "qux">>,
                    bindings |-> <<[role |-> "roles/viewer", members |-> <<"user:a">>]>>]>>],
     invalid |-> [exists |-> TRUE, data |-> "bananas", req |-> <<>>],
     empty |-> [exists |-> TRUE, data |-> "", req |-> <<>>],
     absent |-> [exists |-> FALSE, data |-> "", req |-> <<>>]]

\* The values of -path: not given, and each of the files.
PathInputs == {""} \cup DOMAIN FileInputs

\* The values of -duration: negative, not given (zero) and up to the range of
\* the clock.
DurationInputs == (-1)..MaxTick

\* requestutil.ReadRequestFromPath: the file is opened and read, and decoded
\* when it is not empty; an empty file leaves the zero request.
ReadRequestFromPath(path) ==
    LET f == FileInputs[path] IN
    IF ~f.exists THEN [err |-> "failed to read file", req |-> <<>>]
    ELSE IF f.data = "" THEN [err |-> "", req |-> <<>>]
    ELSE IF f.data # "yaml" THEN [err |-> "failed to unmarshal yaml", req |-> <<>>]
    ELSE [err |-> "", req |-> f.req]

\* strings.SplitN(m, ":", 2)
SplitN(m) ==
    CASE m = "user:a" -> <<"user", "a">>
      [] m = "user:b" -> <<"user", "b">>
      [] m = "group:a" -> <<"group", "a">>
      [] OTHER -> <<m>>

\* mail.ParseAddress on the part after the colon.
ParseAddress(email) == email \in {"a", "b"}

\* The errors ValidateIAMRequest joins for one member.
MemberErrors(m) ==
    LET parts == SplitN(m) IN
    IF Len(parts) < 2 THEN <<"not a valid format">>
    ELSE (IF parts[1] # "user" THEN <<"not of user type">> ELSE <<>>)
         \o (IF ~ParseAddress(parts[2]) THEN <<"not a valid email address">> ELSE <<>>)

RECURSIVE JoinErrors(_)
JoinErrors(ss) == IF ss = <<>> THEN <<>> ELSE Head(ss) \o JoinErrors(Tail(ss))

\* v1alpha1.ValidateIAMRequest: for each ResourcePolicy the resource type is
\* checked, then every member of every binding; the errors are joined.
ValidateIAMRequest(r) ==
    JoinErrors([i \in DOMAIN r |->
        (IF Head(r[i].resource) \in {"organizations", "folders", "projects"}
         THEN <<>>
         ELSE <<"resource isn't one of [organizations, folders, projects]">>)
        \o JoinErrors([j \in DOMAIN r[i].bindings |->
            JoinErrors([k \in DOMAIN r[i].bindings[j].members |->
                MemberErrors(r[i].bindings[j].members[k])])])])

\* handleIAM and cleanupIAM up to the handler: the request read and validated.
ReadAndValidate(c) ==
    LET read == ReadRequestFromPath(c.flagPath) IN
    IF read.err # "" THEN [err |-> "failed to read *v1alpha1.IAMRequest", req |-> <<>>]
    ELSE IF ValidateIAMRequest(read.req) # <<>>
         THEN [err |-> "failed to validate *v1alpha1.IAMRequest", req |-> <<>>]
         ELSE [err |-> "", req |-> read.req]

\* IAMHandleCommand.Run without the check of the expiry.
HandleFlagsError_NoExpiryCheck(c, t) ==
    IF c.flagPath = "" THEN "path is required"
    ELSE IF c.flagDuration <= 0 THEN "a positive duration is required"
    ELSE ""

\* IAMHandleCommand.Run: the checks of the flags, in order.
HandleFlagsError(c, t) ==
    IF c.flagPath = "" THEN "path is required"
    ELSE IF c.flagDuration <= 0 THEN "a positive duration is required"
    ELSE IF c.flagStartTime + c.flagDuration < t
         THEN "expiry (start time + duration) already passed"
         ELSE ""

\* IAMCleanupCommand.Run: the check of the flags.
CleanupFlagsError(c) == IF c.flagPath = "" THEN "path is required" ELSE ""

\* h.Do(ctx, reqWrapper) and h.Cleanup(ctx, &req) entered.
InvokeHandler(operation, r, expiry) ==
    /\ op' = operation
    /\ req' = r
    /\ doExpiry' = expiry
    /\ idx' = 1
    /\ pc' = "entry"
    /\ nps' = <<>>
    /\ retErr' = <<>>
    /\ invBase' = store
    /\ UNCHANGED <<store, ctxDone, retryAttempt, cp, np, updateErr, gets, permSeen,
                   afterPerm, got, entryBase, lastWriter, log, extWrites>>

\* The command back with an error before a handler was built.
CommandFails(c, e) ==
    /\ cli' = [c EXCEPT !.phase = "returned", !.err = e]
    /\ UNCHANGED <<conditionTitle, opts>>
    /\ UNCHANGED hvars

\* IAMHandleCommand.Run up to the call of Do. Without -custom-condition-title
\* handleIAM passes NewIAMHandler a nil Option, whose call panics.
IAMHandleCommandRun ==
    /\ cli.phase = "idle"
    /\ pc = "idle"
    /\ \E path \in PathInputs, d \in DurationInputs, st \in Instants,
          title \in {"", CustomTitle}, clients \in BOOLEAN :
        LET c == [cmd |-> "handle", flagPath |-> path, flagDuration |-> d,
                  flagStartTime |-> st, flagCustomConditionTitle |-> title,
                  phase |-> "idle", err |-> ""]
            e == HandleFlagsError(c, now)
        IN IF e # "" THEN CommandFails(c, e)
           ELSE LET rv == ReadAndValidate(c) IN
                IF rv.err # "" THEN CommandFails(c, rv.err)
                ELSE IF ~clients THEN CommandFails(c, "failed to create client")
                ELSE IF title = ""
                THEN /\ cli' = [c EXCEPT !.phase = "panic"]
                     /\ UNCHANGED <<conditionTitle, opts>>
                     /\ UNCHANGED hvars
                ELSE /\ cli' = [c EXCEPT !.phase = "handler"]
                     /\ opts' = <<title>>
                     /\ conditionTitle' = NewIAMHandler(<<title>>).conditionTitle
                     /\ InvokeHandler("Do", rv.req, st + d)
    /\ UNCHANGED <<now, peer>> /\ UNCHANGED rvars

\* IAMCleanupCommand.Run up to the call of Cleanup.
IAMCleanupCommandRun ==
    /\ cli.phase = "idle"
    /\ pc = "idle"
    /\ \E path \in PathInputs, clients \in BOOLEAN :
        LET c == [cmd |-> "cleanup", flagPath |-> path, flagDuration |-> 0,
                  flagStartTime |-> 0, flagCustomConditionTitle |-> "",
                  phase |-> "idle", err |-> ""]
            e == CleanupFlagsError(c)
        IN IF e # "" THEN CommandFails(c, e)
           ELSE LET rv == ReadAndValidate(c) IN
                IF rv.err # "" THEN CommandFails(c, rv.err)
                ELSE IF ~clients THEN CommandFails(c, "failed to create client")
                ELSE /\ cli' = [c EXCEPT !.phase = "handler"]
                     /\ opts' = <<>>
                     /\ conditionTitle' = NewIAMHandler(<<>>).conditionTitle
                     /\ InvokeHandler("Cleanup", rv.req, now)
    /\ UNCHANGED <<now, peer>> /\ UNCHANGED rvars

\* The rest of handleIAM and cleanupIAM: the error of the handler wrapped and
\* returned, or the request printed.
CommandReturn ==
    /\ cli.phase = "handler"
    /\ pc = "done"
    /\ cli' = [cli EXCEPT !.phase = "returned",
                          !.err = IF retErr = <<>> THEN ""
                                  ELSE IF cli.cmd = "handle"
                                       THEN "failed to handle IAM request"
                                       ELSE "encountered error when cleanning up IAM policy"]
    /\ UNCHANGED <<now, conditionTitle, peer, opts>>
    /\ UNCHANGED hvars /\ UNCHANGED rvars

NextCommand ==
    \/ IAMHandleCommandRun
    \/ IAMCleanupCommandRun
    \/ HandlerStep
    \/ Cancel
    \/ CommandReturn

SpecCommand == Init /\ [][NextCommand]_vars

\* The command was called with something the claim has rejected up front.
RejectedUpFront ==
    \/ cli.flagPath = ""
    \/ cli.cmd = "handle" /\ cli.flagDuration <= 0
    \/ cli.cmd = "handle" /\ cli.flagStartTime + cli.flagDuration < now
    \/ cli.flagPath # "" /\ ReadRequestFromPath(cli.flagPath).err # ""
    \/ cli.flagPath # "" /\ ValidateIAMRequest(ReadRequestFromPath(cli.flagPath).req) # <<>>

\* C23: a command called with no path, with a duration that is not positive,
\* with an expiry already in the past, with a file that cannot be read or
\* with a request ValidateIAMRequest refuses is back with an error, and the
\* handler was not called: no policy was fetched or written.
C23_RejectedBeforeHandler ==
    (cli.cmd # "none" /\ RejectedUpFront) =>
        /\ cli.phase = "returned"
        /\ cli.err # ""
        /\ pc = "idle"
        /\ op = "none"
        /\ gets = 0
        /\ log = <<>>
        /\ store = SeedStore

\* "iam handle" called with the valid file, a positive duration and a start
\* time such that the expiry is before now, and back with that error.
C23_Witness ==
    /\ cli.cmd = "handle"
    /\ cli.flagPath = "valid"
    /\ cli.flagDuration > 0
    /\ cli.flagStartTime + cli.flagDuration < now
    /\ cli.phase = "returned"
    /\ cli.err = "expiry (start time + duration) already passed"
    /\ pc = "idle"

\* ------------------------------------------------------------------------
\* Cleanup while another writer replaces the policy between two attempts
\* ------------------------------------------------------------------------
\* The policy the other writer sets: the bindings of before are gone, one
\* binding without a condition is there.
RewrittenPolicy ==
    [bindings |-> <<NewBinding("roles/editor", <<"user:b">>, NilCondition)>>,
     version |-> 1]

\* Another writer replaces the policy of the resource the handler is at,
\* before an attempt or between its two calls.
ExternalRewrite ==
    /\ pc \in {"try", "set"}
    /\ extWrites < MaxExternalWrites
    /\ extWrites' = extWrites + 1
    /\ LET level == ClientOf(req[idx].resource)
       IN /\ store' = [store EXCEPT ![level] = RewrittenPolicy]
          /\ entryBase' = [entryBase EXCEPT ![level] = RewrittenPolicy]
          /\ invBase' = [invBase EXCEPT ![level] = RewrittenPolicy]
          /\ lastWriter' = [lastWriter EXCEPT ![level] = 0]
    /\ UNCHANGED <<ctxDone, retryAttempt, pc, op, req, doExpiry, idx, cp, np,
                   updateErr, nps, retErr, gets, permSeen, afterPerm, got, log>>
    /\ UNCHANGED <<now, conditionTitle, peer>> /\ UNCHANGED rvars /\ UNCHANGED cvars

NextRewrite ==
    \/ StartCleanup
    \/ Dispatch
    \/ Return
    \/ GetIamPolicy
    \/ UpdatePolicy
    \/ SetIamPolicy
    \/ ExternalRewrite

SpecRewrite == Init /\ [][NextRewrite]_vars

\* C26: the decode error returned for an entry is that of the policy fetched
\* in the attempt whose write succeeded: an entry whose written attempt
\* fetched no undecodable binding of the handler's title is returned without
\* error, whatever an earlier, failed attempt of the entry fetched.
C26_ErrorOfWrittenAttemptOnly ==
    \A i \in DOMAIN log :
        (log[i].status = "ok" /\ ~FetchedUndecodable(i)) => log[i].err = <<>>

\* A Cleanup of one entry: the first attempt fetched the undecodable binding
\* and its SetIamPolicy failed, the policy was replaced, the second attempt
\* fetched the new policy, wrote it, and the entry came back with the decode
\* error of the first attempt.
C26_Witness ==
    /\ op = "Cleanup"
    /\ pc = "done"
    /\ Len(log) = 1
    /\ log[1].status = "ok"
    /\ log[1].got = RewrittenPolicy
    /\ extWrites = 1
    /\ retryAttempt = 1
    /\ log[1].err # <<>>
    /\ Len(nps) = 1
    /\ Len(retErr) = 1

\* ------------------------------------------------------------------------
\* Do for a request that names one resource in two entries
\* ------------------------------------------------------------------------
\* The requests: projects/baz asked roles/viewer for user:a, and then
\* roles/viewer for user:b, roles/viewer for user:a again, or roles/editor for
\* user:a.
TwiceRequests ==
    {<<[resource |-> <<"projects", "baz">>,
        bindings |-> <<[role |-> "roles/viewer", members |-> <<"user:a">>]>>],
       [resource |-> <<"projects", "baz">>, bindings |-> <<b>>]>> :
        b \in {[role |-> "roles/viewer", members |-> <<"user:b">>],
               [role |-> "roles/viewer", members |-> <<"user:a">>],
               [role |-> "roles/editor", members |-> <<"user:a">>]}}

\* Do(ctx, r) up to its loop, for such a request and any expiry.
StartDoTwice ==
    /\ pc = "idle"
    /\ \E r \in TwiceRequests, e \in Instants :
        /\ req' = r
        /\ doExpiry' = e
    /\ op' = "Do"
    /\ idx' = 1
    /\ pc' = "entry"
    /\ nps' = <<>>
    /\ retErr' = <<>>
    /\ invBase' = store
    /\ UNCHANGED <<store, ctxDone, retryAttempt, cp, np, updateErr, gets, permSeen,
                   afterPerm, got, entryBase, lastWriter, log, extWrites>>
    /\ UNCHANGED <<now, conditionTitle, peer>> /\ UNCHANGED rvars /\ UNCHANGED cvars

NextTwice ==
    \/ StartDoTwice
    \/ Dispatch
    \/ Return
    \/ GetIamPolicy
    \/ UpdatePolicy
    \/ SetIamPolicy

SpecTwice == Init /\ [][NextTwice]_vars

\* Do is back from a request of two entries for one resource, both written.
SameScopeTwice ==
    /\ op = "Do"
    /\ pc = "done"
    /\ Len(req) = 2
    /\ req[1].resource = req[2].resource
    /\ Len(log) = 2
    /\ log[1].status = "ok"
    /\ log[2].status = "ok"

\* The (role, member) pairs the entries of the request ask for.
RequestedPairs ==
    UNION {UNION {{<<req[i].bindings[j].role, m>> :
                        m \in Range(req[i].bindings[j].members)} :
                    j \in DOMAIN req[i].bindings} : i \in DOMAIN req}

\* The second entry fetched what the first wrote, and the stored policy holds
\* every requested pair in a binding of the handler's title.
NoGrantLost ==
    /\ log[2].got = nps[1].policy
    /\ \A pair \in RequestedPairs :
          HasGrant(store[ClientOf(req[1].resource)], pair[1], pair[2])

\* The expiry of the invocation, as written in the bindings, is before now.
ExpiryPassed ==
    expired(Sprintf(expirationExpression, FormatRFC3339(doExpiry)), now).expired

\* C30 as stated: when the request of a Do names one resource in two entries,
\* the second entry fetches after the first has written, and after both are
\* written every requested (role, member) pair is in a binding of the
\* handler's title in the stored policy.
C30_NoGrantLostBetweenEntries == SameScopeTwice => NoGrantLost

\* C30 as amended: the same, for an expiry that, as written (cut to whole
\* seconds), is not before the current time. With an expiry that is, the
\* binding the first entry wrote is expired when the second entry reconciles
\* and is dropped.
C30_NoUnexpiredGrantLostBetweenEntries ==
    (SameScopeTwice /\ ~ExpiryPassed) => NoGrantLost

\* A Do that asked roles/viewer of projects/baz for user:a and then for user:b,
\* with an expiry ahead: the stored policy holds two bindings of the title for
\* the role, one per entry.
C30_Witness ==
    /\ SameScopeTwice
    /\ ~ExpiryPassed
    /\ req[2].bindings = <<[role |-> "roles/viewer", members |-> <<"user:b">>]>>
    /\ Len(store["projects"].bindings) = 2
    /\ store["projects"].bindings[1].members = <<"user:a">>
    /\ store["projects"].bindings[2].members = <<"user:b">>
    /\ \A i \in 1..2 : Managed(store["projects"].bindings[i])

====
